---- MODULE Spec2Model ----
(***************************************************************************)
(* A model of the ACPI discovery and decoding code of AsyncOS              *)
(* (src/src/acpi): physical memory is a byte map, every structure is read  *)
(* from it by address arithmetic, and the two iterators (MADTEntryIterator *)
(* and RawTablesIter) are records holding the fields of the Rust structs.  *)
(*                                                                         *)
(* Word values wider than TLC's integers (u32 fields with the top bit set, *)
(* u64 pointers, usize counts) are kept as little-endian sequences of      *)
(* 16-bit limbs, so no value is truncated.                                 *)
(***************************************************************************)
EXTENDS Integers, Sequences, FiniteSets, TLC

VARIABLES
    mem,        \* physical memory: address -> byte, for the populated addresses
    fill,       \* the byte every unpopulated address reads as
    layout,     \* the records the firmware laid out in the MADT body (history)
    madt,       \* the address the &MADT reference points to
    madtIter,   \* the MADTEntryIterator: [end, location], or NoIter
    madtRet,    \* what the last call of MADTEntryIterator::next returned
    madtOut,    \* the entries the iterator has emitted so far, in order
    madtReads,  \* the addresses the last call of next read
    budget,     \* how many items a behaviour may draw from one iterator
    overflowChecks, \* the build panics on integer overflow (else it wraps)
    panicked,   \* the kernel has panicked
    rsdp,       \* what find_rsdp returned to find_in_memory
    acpi,       \* what ACPI::find_in_memory returned: the handle, if any
    rawIter,    \* the RawTablesIter: [location, remaining, is_64_bit], or NoIter
    rawRet,     \* what the last call of RawTablesIter::next returned
    rawOut,     \* the pointers the iterator has yielded so far, in order
    rawReads,   \* the addresses the last raw_tables or next call read
    rootReads,  \* the addresses of the root pointer find_in_memory read
    findSig,    \* the signature the last find_raw_table call was given
    findRet,    \* what the last find_raw_table call returned
    findReads,  \* the addresses the last find_raw_table call read
    tableShape, \* the table type T of the last find_table::<T> call
    tableRet,   \* what the last find_table call returned
    sumRet,     \* what the last verify_checksum call on the table returned
    changed,    \* the one byte of the table changed since it verified
    view,       \* the filtered view of the MADT: [kind, it], or NoIter
    viewRet,    \* what the last call of the view's next returned
    viewOut,    \* the entries the view has yielded so far, in order
    viewSeen,   \* the entries the view drew from its entries() iterator
    history,    \* behaviours keep the output of the iterators they replace
    earlier,    \* the longest output a replaced iterator gave (history)
    probed,     \* the addresses find_rsdp compared with the signature
    enabled,    \* the last Processor::is_enabled call: [flags, ret], or NoCall
    writerLock, \* the print call holding VGA_WRITER's lock, or Unlocked
    writer,     \* the VGAWriter inside the mutex: [row, column, color]
    calls,      \* the print call each processor is in: [pc, id, text, ..]
    issued,     \* how many print calls have been started
    typed,      \* the print call of every character written, in order (history)
    pageEntry,  \* a PageEntry: its u64 as four 16-bit limbs, low limb first
    pageCall    \* the last PageEntry setter called: [flag, value, before]

madtVars == <<madt, madtIter, madtRet, madtOut, madtReads>>
acpiVars == <<rsdp, acpi, rawIter, rawRet, rawOut, rawReads>>
findVars == <<rootReads, findSig, findRet, findReads, tableShape, tableRet>>
lookupVars == <<findSig, findRet, findReads, tableShape, tableRet>>
sumVars == <<sumRet, changed>>
viewVars == <<view, viewRet, viewOut, viewSeen>>
envVars == <<mem, fill, layout, budget, overflowChecks, history>>
consoleVars == <<writerLock, writer, calls, issued, typed>>
pagingVars == <<pageEntry, pageCall>>
discoveryVars ==
    <<panicked, madtVars, acpiVars, findVars, sumVars, viewVars, earlier,
      probed, enabled>>
vars ==
    <<envVars, panicked, madtVars, acpiVars, findVars, sumVars, viewVars,
      earlier, probed, enabled, consoleVars, pagingVars>>

-----------------------------------------------------------------------------
(* Bounds of the model *)

\* The most records a modelled MADT body holds.
MaxRecs == 3
\* The most entries a behaviour of Spec emits from one iterator.
MaxEmit == 6
\* The most entries a behaviour of SpecLong emits from one iterator.
LongEmit == 100

-----------------------------------------------------------------------------
(* Sizes of the packed structures *)

\* mem::size_of::<SDTHeader>(): 4 + 4 + 1 + 1 + 6 + 8 + 4 + 4 + 4
SizeOfSDTHeader == 36
\* mem::size_of::<MADT>(): the header, controller_address and flags
SizeOfMADT == 44
\* mem::size_of::<MADTProcessorEntry>()
SizeOfProcessorEntry == 8
\* mem::size_of::<MADTIOAPICEntry>()
SizeOfIOAPICEntry == 12
\* mem::size_of::<MADTInterruptSourceEntry>()
SizeOfInterruptSourceEntry == 10

-----------------------------------------------------------------------------
(* Reading physical memory *)

None == [tag |-> "None"]
Some(v) == [tag |-> "Some", value |-> v]
NoIter == [tag |-> "NoIter"]
NoCall == [tag |-> "NoCall"]

\* *(a as *const u8)
ReadU8(a) == IF a \in DOMAIN mem THEN mem[a] ELSE fill

\* *(a as *const u16), little-endian as on x86
ReadU16(a) == ReadU8(a) + 256 * ReadU8(a + 1)

\* *(a as *const u32): two 16-bit limbs, low limb first
ReadU32(a) == <<ReadU16(a), ReadU16(a + 2)>>

\* *(a as *const u64): four 16-bit limbs, low limb first
ReadU64(a) == <<ReadU16(a), ReadU16(a + 2), ReadU16(a + 4), ReadU16(a + 6)>>

\* `x as usize` / `x as isize` of a u32 on the 64-bit target, for the values
\* TLC's integers hold (the modelled lengths are all below 2^31).
U32AsInt(w) == w[1] + 65536 * w[2]

\* `x as *mut u8` of a u32: zero-extended to the 64-bit pointer
U32AsPtr(w) == <<w[1], w[2], 0, 0>>

\* SDTHeader.length of the table at address t: the u32 at offset 4
HeaderLength(t) == U32AsInt(ReadU32(t + 4))

-----------------------------------------------------------------------------
(* MADT::entries and MADTEntryIterator::next *)

MADTEntryTypeFrom(entry_type) ==
    CASE entry_type = 0 -> "Processor"
      [] entry_type = 1 -> "IOAPIC"
      [] entry_type = 2 -> "InterruptSourceOverride"
      [] OTHER -> "Unknown"

\* MADTEntryHeader: entry_type at offset 0, length at offset 1
EntryType(loc) == ReadU8(loc)
EntryLength(loc) == ReadU8(loc + 1)

\* DecodeEntry with the two id bytes of a processor record exchanged.
DecodeEntrySwapped(loc) ==
    LET ty == MADTEntryTypeFrom(EntryType(loc)) IN
    CASE ty = "Processor" ->
           [kind |-> "Processor",
            acpi_id |-> ReadU8(loc + 3),
            apic_id |-> ReadU8(loc + 2),
            flags |-> ReadU32(loc + 4)]
      [] ty = "IOAPIC" ->
           [kind |-> "IOAPIC",
            apic_id |-> ReadU8(loc + 2),
            address |-> U32AsPtr(ReadU32(loc + 4)),
            interrupt_base |-> ReadU32(loc + 8)]
      [] ty = "InterruptSourceOverride" ->
           [kind |-> "InterruptSourceOverride",
            bus_source |-> ReadU8(loc + 2),
            irq_source |-> ReadU8(loc + 3),
            interrupt |-> ReadU32(loc + 4),
            flags |-> ReadU16(loc + 8)]
      [] OTHER -> [kind |-> "Unknown"]

\* The value the match of next builds for the entry at loc.
DecodeEntry(loc) ==
    LET ty == MADTEntryTypeFrom(EntryType(loc)) IN
    CASE ty = "Processor" ->
           [kind |-> "Processor",
            acpi_id |-> ReadU8(loc + 2),
            apic_id |-> ReadU8(loc + 3),
            flags |-> ReadU32(loc + 4)]
      [] ty = "IOAPIC" ->
           [kind |-> "IOAPIC",
            apic_id |-> ReadU8(loc + 2),
            address |-> U32AsPtr(ReadU32(loc + 4)),
            interrupt_base |-> ReadU32(loc + 8)]
      [] ty = "InterruptSourceOverride" ->
           [kind |-> "InterruptSourceOverride",
            bus_source |-> ReadU8(loc + 2),
            irq_source |-> ReadU8(loc + 3),
            interrupt |-> ReadU32(loc + 4),
            flags |-> ReadU16(loc + 8)]
      [] OTHER -> [kind |-> "Unknown"]

\* The addresses next reads for the entry at loc: the two header bytes, and
\* the fields of the record the type selects.
EntryReads(loc) ==
    LET ty == MADTEntryTypeFrom(EntryType(loc)) IN
    {loc, loc + 1} \cup
    CASE ty = "Processor" -> (loc + 2) .. (loc + 7)
      [] ty = "IOAPIC" -> {loc + 2} \cup ((loc + 4) .. (loc + 11))
      [] ty = "InterruptSourceOverride" -> (loc + 2) .. (loc + 9)
      [] OTHER -> {}

\* Advance by the static size of the decoded record.
AdvanceStatic(loc) ==
    LET ty == MADTEntryTypeFrom(EntryType(loc)) IN
    CASE ty = "Processor" -> loc + SizeOfProcessorEntry
      [] ty = "IOAPIC" -> loc + SizeOfIOAPICEntry
      [] ty = "InterruptSourceOverride" -> loc + SizeOfInterruptSourceEntry
      [] OTHER -> loc + EntryLength(loc)

\* self.location.offset((*header_ptr).length as isize)
Advance(loc) == loc + EntryLength(loc)

\* MADT::entries starting right after the SDTHeader.
EntriesIterAfterHeader(table) ==
    [end |-> table + HeaderLength(table),
     location |-> table + SizeOfSDTHeader]

\* MADT::entries taking up the cursor of the iterator it replaces.
EntriesIterResumed(table) ==
    IF madtIter = NoIter
    THEN [end |-> table + HeaderLength(table), location |-> table + SizeOfMADT]
    ELSE madtIter

\* MADT::entries(&self)
EntriesIter(table) ==
    [end |-> table + HeaderLength(table), location |-> table + SizeOfMADT]

MadtEntries ==
    /\ madtIter' = EntriesIter(madt)
    /\ madtRet' = NoCall
    /\ madtOut' = <<>>
    /\ madtReads' = (madt + 4) .. (madt + 7)
    /\ earlier' = IF history /\ Len(madtOut) > Len(earlier.madt)
                  THEN [earlier EXCEPT !.madt = madtOut] ELSE earlier
    /\ UNCHANGED <<envVars, panicked, madt, acpiVars, findVars, sumVars,
                   viewVars, probed, enabled, consoleVars, pagingVars>>

\* if self.location == self.end { return None; }
AtEnd(it) == it.location = it.end

MadtNext ==
    /\ madtIter # NoIter
    /\ AtEnd(madtIter) \/ Len(madtOut) < budget
    /\ IF AtEnd(madtIter)
       THEN /\ madtRet' = None
            /\ madtReads' = {}
            /\ UNCHANGED <<madtIter, madtOut>>
       ELSE /\ madtRet' = Some(DecodeEntry(madtIter.location))
            /\ madtReads' = EntryReads(madtIter.location)
            /\ madtOut' = Append(madtOut, DecodeEntry(madtIter.location))
            /\ madtIter' = [madtIter EXCEPT !.location = Advance(@)]
    /\ UNCHANGED <<envVars, panicked, madt, acpiVars, findVars, sumVars,
                   viewVars, earlier, probed, enabled, consoleVars, pagingVars>>

\* A predicate that holds when any bit of the flags word is set.
IsEnabledAnyBit(flags) == flags # <<0, 0>>

\* Processor::is_enabled(&self): (self.flags & 0x1) != 0; bit 0 of the
\* word is bit 0 of its low limb
IsEnabled(flags) == flags[1] % 2 # 0

\* is_enabled() on the Processor the iterator returned last.
IsEnabledCall ==
    /\ madtRet.tag = "Some"
    /\ madtRet.value.kind = "Processor"
    /\ enabled' = [flags |-> madtRet.value.flags,
                   ret |-> IsEnabled(madtRet.value.flags)]
    /\ UNCHANGED <<envVars, panicked, madtVars, acpiVars, findVars, sumVars,
                   viewVars, earlier, probed, consoleVars, pagingVars>>

-----------------------------------------------------------------------------
(* MADT::processors, MADT::io_apics, MADT::interrupt_source_overrides *)

\* The most entries one call of a view's next is followed through.
MaxSkip == 6

\* The variant each view passes on: processors, io_apics,
\* interrupt_source_overrides.
Views == {"Processor", "IOAPIC", "InterruptSourceOverride"}

\* A closure that passes Unknown entries on as well.
KeepsWithUnknown(kind, entry) == entry.kind \in {kind, "Unknown"}

\* The closure of filter_map: Some(payload) for the view's variant,
\* None for `_`
Keeps(kind, entry) == entry.kind = kind

\* FilterMap::next: draw entries from the inner iterator until the closure
\* passes one on or the iterator returns None.  The value returned, the
\* iterator afterwards and the entries drawn; a call still drawing after
\* fuel entries is Running.
RECURSIVE ViewScan(_, _, _)
ViewScan(kind, it, fuel) ==
    IF AtEnd(it) THEN [ret |-> None, it |-> it, seen |-> <<>>]
    ELSE IF fuel = 0
    THEN [ret |-> [tag |-> "Running"], it |-> it, seen |-> <<>>]
    ELSE LET entry == DecodeEntry(it.location)
             after == [it EXCEPT !.location = Advance(@)]
         IN  IF Keeps(kind, entry)
             THEN [ret |-> Some(entry), it |-> after, seen |-> <<entry>>]
             ELSE LET rest == ViewScan(kind, after, fuel - 1)
                  IN  [rest EXCEPT !.seen = <<entry>> \o @]

\* MADT::processors(&self), io_apics(&self),
\* interrupt_source_overrides(&self): self.entries().filter_map(..)
MadtView ==
    /\ madt # 0
    /\ \E kind \in Views : view' = [kind |-> kind, it |-> EntriesIter(madt)]
    /\ viewRet' = NoCall
    /\ viewOut' = <<>>
    /\ viewSeen' = <<>>
    /\ UNCHANGED <<envVars, panicked, madtVars, acpiVars, findVars, sumVars,
                   earlier, probed, enabled, consoleVars, pagingVars>>

ViewNext ==
    /\ view # NoIter
    /\ viewRet.tag # "Running"
    /\ AtEnd(view.it) \/ Len(viewOut) < budget
    /\ LET r == ViewScan(view.kind, view.it, MaxSkip) IN
         /\ viewRet' = r.ret
         /\ view' = [view EXCEPT !.it = r.it]
         /\ viewSeen' = viewSeen \o r.seen
         /\ viewOut' = IF r.ret.tag = "Some"
                       THEN Append(viewOut, r.ret.value) ELSE viewOut
    /\ UNCHANGED <<envVars, panicked, madtVars, acpiVars, findVars, sumVars,
                   earlier, probed, enabled, consoleVars, pagingVars>>

-----------------------------------------------------------------------------
(* usize arithmetic: 64-bit values as four 16-bit limbs, low limb first *)

\* `n as usize` for a small non-negative n
USize(n) == <<n % 65536, n \div 65536, 0, 0>>

\* `x as usize` of a u32: zero-extended
U32AsUSize(w) == <<w[1], w[2], 0, 0>>

\* a - b overflows (a < b)
SubOverflows(a, b) ==
    LET c1 == IF a[1] < b[1] THEN 1 ELSE 0
        c2 == IF a[2] < b[2] + c1 THEN 1 ELSE 0
        c3 == IF a[3] < b[3] + c2 THEN 1 ELSE 0
    IN  a[4] < b[4] + c3

\* a - b modulo 2^64
WrappingSub(a, b) ==
    LET c1 == IF a[1] < b[1] THEN 1 ELSE 0
        c2 == IF a[2] < b[2] + c1 THEN 1 ELSE 0
        c3 == IF a[3] < b[3] + c2 THEN 1 ELSE 0
        c4 == IF a[4] < b[4] + c3 THEN 1 ELSE 0
    IN  <<a[1] - b[1] + 65536 * c1,
          a[2] - b[2] - c1 + 65536 * c2,
          a[3] - b[3] - c2 + 65536 * c3,
          a[4] - b[4] - c3 + 65536 * c4>>

\* a / d for a small divisor d: long division from the high limb down
DivSmall(a, d) ==
    LET n4 == a[4]
        n3 == (n4 % d) * 65536 + a[3]
        n2 == (n3 % d) * 65536 + a[2]
        n1 == (n2 % d) * 65536 + a[1]
    IN  <<n1 \div d, n2 \div d, n3 \div d, n4 \div d>>

-----------------------------------------------------------------------------
(* RSDT::raw_tables, XSDT::raw_tables and RawTablesIter::next *)

\* mem::size_of::<u32>() and mem::size_of::<u64>()
SizeOfU32 == 4
SizeOfU64 == 8

\* self.header.length as usize - mem::size_of::<Self>() overflows
CountOverflows(table) ==
    SubOverflows(U32AsUSize(ReadU32(table + 4)), USize(SizeOfSDTHeader))

\* The count rounded up: a last, partial pointer is counted too.
PointerCountRoundedUp(table, width) ==
    LET bytes == WrappingSub(U32AsUSize(ReadU32(table + 4)),
                             USize(SizeOfSDTHeader))
    IN  DivSmall(<<bytes[1] + width - 1, bytes[2], bytes[3], bytes[4]>>,
                 width)

\* (self.header.length as usize - mem::size_of::<Self>()) / width
PointerCount(table, width) ==
    DivSmall(WrappingSub(U32AsUSize(ReadU32(table + 4)),
                         USize(SizeOfSDTHeader)), width)

\* An enumeration whose cursor starts at the table's first byte.
RSDTRawTablesFromBase(table) ==
    [location |-> table,
     remaining |-> PointerCount(table, SizeOfU32),
     is_64_bit |-> FALSE]

\* RSDT::raw_tables(&self)
RSDTRawTables(table) ==
    [location |-> table + SizeOfSDTHeader,
     remaining |-> PointerCount(table, SizeOfU32),
     is_64_bit |-> FALSE]

\* XSDT::raw_tables(&self)
XSDTRawTables(table) ==
    [location |-> table + SizeOfSDTHeader,
     remaining |-> PointerCount(table, SizeOfU64),
     is_64_bit |-> TRUE]

\* The pointer a next call reads at the cursor.
RawValue(it) ==
    IF it.is_64_bit
    THEN ReadU64(it.location)
    ELSE U32AsPtr(ReadU32(it.location))

\* The width a next call of the 32-bit form advances by, taken for the
\* 64-bit form too.
RawStepNarrow(it) == SizeOfU32

\* The width a next call advances the cursor by.
RawStep(it) == IF it.is_64_bit THEN SizeOfU64 ELSE SizeOfU32

\* A next that, having returned None, starts over at the first pointer.
RawNextStartingOver ==
    /\ ~panicked
    /\ rawIter # NoIter
    /\ rawIter.remaining = USize(0) \/ Len(rawOut) < budget
    /\ IF rawIter.remaining = USize(0)
       THEN /\ rawRet' = None
            /\ rawReads' = {}
            /\ rawIter' =
                 [rawIter EXCEPT
                    !.location = @ - Len(rawOut) * (IF rawIter.is_64_bit
                                                    THEN 8 ELSE 4),
                    !.remaining = <<Len(rawOut), 0, 0, 0>>]
            /\ UNCHANGED rawOut
       ELSE /\ rawRet' = Some(RawValue(rawIter))
            /\ rawReads' = rawIter.location
                             .. (rawIter.location + RawStep(rawIter) - 1)
            /\ rawOut' = Append(rawOut, RawValue(rawIter))
            /\ rawIter' =
                 [rawIter EXCEPT
                    !.location = @ + RawStep(rawIter),
                    !.remaining = WrappingSub(@, USize(1))]
    /\ UNCHANGED <<envVars, panicked, madtVars, rsdp, acpi, findVars, sumVars,
                   viewVars, earlier, probed, enabled, consoleVars, pagingVars>>

RawNext ==
    /\ ~panicked
    /\ rawIter # NoIter
    /\ rawIter.remaining = USize(0) \/ Len(rawOut) < budget
    /\ IF rawIter.remaining = USize(0)
       THEN /\ rawRet' = None
            /\ rawReads' = {}
            /\ UNCHANGED <<rawIter, rawOut>>
       ELSE /\ rawRet' = Some(RawValue(rawIter))
            /\ rawReads' = rawIter.location
                             .. (rawIter.location + RawStep(rawIter) - 1)
            /\ rawOut' = Append(rawOut, RawValue(rawIter))
            /\ rawIter' =
                 [rawIter EXCEPT
                    !.location = @ + RawStep(rawIter),
                    !.remaining = WrappingSub(@, USize(1))]
    /\ UNCHANGED <<envVars, panicked, madtVars, rsdp, acpi, findVars, sumVars,
                   viewVars, earlier, probed, enabled, consoleVars, pagingVars>>

-----------------------------------------------------------------------------
(* find_rsdp *)

\* b"RSD PTR "
RSDP_SIGNATURE == <<82, 83, 68, 32, 80, 84, 82, 32>>
\* 0x40E
EXTENDED_BIOS_AREA_POINTER_LOC == 1038
\* 1 << 10
EXTENDED_BIOS_AREA_MAX_SIZE == 1024
\* 0xE0000
RSDP_LOCATION_START == 917504
\* 0x100000
RSDP_LOCATION_END == 1048576
RSDP_VERSION_1 == 0
RSDP_VERSION_2 == 2

\* ((*EXTENDED_BIOS_AREA_POINTER_LOC) as usize) << 4
ExtendedBiosDataAreaStart == ReadU16(EXTENDED_BIOS_AREA_POINTER_LOC) * 16

\* (lo .. hi).step_by(8).
StepBy8(lo, hi) ==
    IF lo >= hi THEN <<>>
    ELSE [i \in 1 .. ((hi - lo + 7) \div 8) |-> lo + 8 * (i - 1)]

\* (lo .. hi).step_by(16), as the sequence of the addresses it visits
StepBy16(lo, hi) ==
    IF lo >= hi THEN <<>>
    ELSE [i \in 1 .. ((hi - lo + 15) \div 16) |-> lo + 16 * (i - 1)]

\* The chained ranges with the EBDA range put first.
ScanOrderEbdaFirst ==
    StepBy16(ExtendedBiosDataAreaStart,
             ExtendedBiosDataAreaStart + EXTENDED_BIOS_AREA_MAX_SIZE)
      \o StepBy16(RSDP_LOCATION_START, RSDP_LOCATION_END)

\* The addresses find_rsdp probes, in the order of the chained ranges.
ScanOrder ==
    StepBy16(RSDP_LOCATION_START, RSDP_LOCATION_END)
      \o StepBy16(ExtendedBiosDataAreaStart,
                  ExtendedBiosDataAreaStart + EXTENDED_BIOS_AREA_MAX_SIZE)

\* raw_slice == RSDP_SIGNATURE
SignatureAt(loc) ==
    \A i \in 1 .. Len(RSDP_SIGNATURE) : ReadU8(loc + i - 1) = RSDP_SIGNATURE[i]

\* find_rsdp() keeping the last probed address holding the signature.
FindRsdpLast ==
    LET order == ScanOrder
        hits == {i \in DOMAIN order : SignatureAt(order[i])}
    IN  IF hits = {} THEN None
        ELSE Some(order[CHOOSE i \in hits : \A j \in hits : i >= j])

\* find_rsdp(): the first probed address holding the signature
FindRsdp ==
    LET order == ScanOrder
        hits == {i \in DOMAIN order : SignatureAt(order[i])}
    IN  IF hits = {} THEN None
        ELSE Some(order[CHOOSE i \in hits : \A j \in hits : i <= j])

\* The closure of find called on every address of the chained ranges.
ProbesMadeAll == {ScanOrder[i] : i \in DOMAIN ScanOrder}

\* The addresses Iterator::find calls the closure on: those of the chained
\* ranges in order, up to and including the first the closure holds for.
ProbesMade ==
    LET order == ScanOrder
        hits == {i \in DOMAIN order : SignatureAt(order[i])}
        last == IF hits = {} THEN Len(order)
                ELSE CHOOSE i \in hits : \A j \in hits : i <= j
    IN  {order[i] : i \in 1 .. last}

-----------------------------------------------------------------------------
(* ACPI::find_in_memory and ACPI::raw_tables *)

\* mem::size_of::<RSDP>(): 8 + 1 + 6 + 1 + 4
SizeOfRSDP == 20
\* mem::size_of::<XSDP>(): 8 + 1 + 6 + 1 + 4 + 4 + 8 + 1 + 3
SizeOfXSDP == 36

\* The 64-bit address read after a second 4-byte legacy address.
XsdpAddressAfterLegacy(ptr) == ReadU64(ptr + SizeOfRSDP + 8)

\* RSDP.revision (offset 15), RSDP.address (offset 16), XSDP.address
\* (offset 24: after _rsdt_address and length)
RsdpRevision(ptr) == ReadU8(ptr + 15)
RsdpAddress(ptr) == ReadU32(ptr + 16)
XsdpAddress(ptr) == ReadU64(ptr + 24)

\* The match of find_in_memory taking the 32-bit address field for the
\* extended pointer too.
ResolveRootLegacyField(ptr) ==
    CASE RsdpRevision(ptr) = RSDP_VERSION_1 ->
           Some([tag |-> "Version1", table |-> U32AsPtr(RsdpAddress(ptr))])
      [] RsdpRevision(ptr) = RSDP_VERSION_2 ->
           Some([tag |-> "Version2", table |-> U32AsPtr(RsdpAddress(ptr))])
      [] OTHER -> None

\* The match of find_in_memory on (*ptr).revision
ResolveRoot(ptr) ==
    CASE RsdpRevision(ptr) = RSDP_VERSION_1 ->
           Some([tag |-> "Version1", table |-> U32AsPtr(RsdpAddress(ptr))])
      [] RsdpRevision(ptr) = RSDP_VERSION_2 ->
           Some([tag |-> "Version2", table |-> XsdpAddress(ptr)])
      [] OTHER -> None

\* The fields of the root pointer the match reads: the address fields are
\* read before the revision is looked at.
ResolveReadsEager(ptr) ==
    {ptr + 15} \cup ((ptr + 16) .. (ptr + 19)) \cup ((ptr + 24) .. (ptr + 31))

\* The fields of the root pointer the match reads: (*ptr).revision, then
\* (*ptr).address or (*xptr).address in the arm taken, nothing more in the
\* `_` arm.
ResolveReads(ptr) ==
    CASE RsdpRevision(ptr) = RSDP_VERSION_1 ->
           {ptr + 15} \cup ((ptr + 16) .. (ptr + 19))
      [] RsdpRevision(ptr) = RSDP_VERSION_2 ->
           {ptr + 15} \cup ((ptr + 24) .. (ptr + 31))
      [] OTHER -> {ptr + 15}

\* find_rsdp().and_then(|ptr| ...): the closure runs only on Some(ptr)
FindInMemory ==
    /\ ~panicked
    /\ acpi = NoCall
    /\ rsdp' = FindRsdp
    /\ acpi' = IF FindRsdp = None THEN None ELSE ResolveRoot(FindRsdp.value)
    /\ rootReads' = IF FindRsdp = None THEN {}
                    ELSE ResolveReads(FindRsdp.value)
    /\ probed' = ProbesMade
    /\ UNCHANGED <<envVars, panicked, madtVars, rawIter, rawRet, rawOut,
                   rawReads, lookupVars, sumVars, viewVars, earlier, enabled,
                   consoleVars, pagingVars>>

\* A pointer the modelled memory can be read at (below 2^31).
Mapped(p) == p[3] = 0 /\ p[4] = 0 /\ p[2] < 32768
PtrAsInt(p) == p[1] + 65536 * p[2]

\* ACPI::raw_tables giving every handle the 64-bit enumeration.
HandleRawTablesWide(handle) == XSDTRawTables(PtrAsInt(handle.table))

\* ACPI::raw_tables(&self): the match on the handle's variant
HandleRawTables(handle) ==
    IF handle.tag = "Version1"
    THEN RSDTRawTables(PtrAsInt(handle.table))
    ELSE XSDTRawTables(PtrAsInt(handle.table))

AcpiRawTables ==
    /\ ~panicked
    /\ acpi.tag = "Some"
    /\ Mapped(acpi.value.table)
    /\ rawRet' = NoCall
    /\ rawOut' = <<>>
    /\ rawReads' = (PtrAsInt(acpi.value.table) + 4)
                     .. (PtrAsInt(acpi.value.table) + 7)
    /\ IF overflowChecks /\ CountOverflows(PtrAsInt(acpi.value.table))
       THEN \* panic: attempt to subtract with overflow
            /\ panicked' = TRUE
            /\ rawIter' = NoIter
       ELSE /\ rawIter' = HandleRawTables(acpi.value)
            /\ UNCHANGED panicked
    /\ earlier' = IF history /\ Len(rawOut) > Len(earlier.raw)
                  THEN [earlier EXCEPT !.raw = rawOut] ELSE earlier
    /\ UNCHANGED <<envVars, madtVars, rsdp, acpi, findVars, sumVars,
                   viewVars, probed, enabled, consoleVars, pagingVars>>

-----------------------------------------------------------------------------
(* ACPI::find_raw_table and ACPI::find_table *)

\* The most pointers a modelled find_raw_table call is followed through.
MaxScan == 6

\* The byte at offset off of the structure a pointer names; a pointer
\* outside the populated memory reads the fill byte.
ReadAt(p, off) == IF Mapped(p) THEN ReadU8(PtrAsInt(p) + off) ELSE fill

\* (*table_ptr).signature: the [u8; 4] at offset 0 of the header
TableSignature(p) == [i \in 1 .. 4 |-> ReadAt(p, i - 1)]

\* &(*table_ptr).signature == signature: equal as slices, in length and
\* in every byte
SignatureMatches(p, sig) == TableSignature(p) = sig

\* The iterator after one call of next that yielded a pointer.
RawAdvance(it) ==
    [it EXCEPT !.location = @ + RawStep(it),
               !.remaining = WrappingSub(@, USize(1))]

\* The reads of a comparison that loads the whole header it is given.
ProbeReadsWholeHeader(it) ==
    (it.location .. (it.location + RawStep(it) - 1))
      \cup (IF Mapped(RawValue(it))
            THEN PtrAsInt(RawValue(it))
                   .. (PtrAsInt(RawValue(it)) + SizeOfSDTHeader - 1)
            ELSE {})

\* The addresses read for the pointer at the cursor: its slot in the root
\* table and the signature of the header it names.
ProbeReads(it) ==
    (it.location .. (it.location + RawStep(it) - 1))
      \cup (IF Mapped(RawValue(it))
            THEN PtrAsInt(RawValue(it)) .. (PtrAsInt(RawValue(it)) + 3)
            ELSE {})

\* self.raw_tables().find(|&table_ptr| &(*table_ptr).signature ==
\* signature) from the iterator it: the value returned and the addresses
\* read.  A search still going after fuel pointers is Running.
RECURSIVE RawFind(_, _, _)
RawFind(it, sig, fuel) ==
    IF it.remaining = USize(0) THEN [ret |-> None, reads |-> {}]
    ELSE IF fuel = 0 THEN [ret |-> [tag |-> "Running"], reads |-> {}]
    ELSE IF SignatureMatches(RawValue(it), sig)
    THEN [ret |-> Some(RawValue(it)), reads |-> ProbeReads(it)]
    ELSE LET rest == RawFind(RawAdvance(it), sig, fuel - 1)
         IN  [ret |-> rest.ret, reads |-> ProbeReads(it) \cup rest.reads]

\* b"FACP", the signature of a table the kernel has no type for
FADTSignature == <<70, 65, 67, 80>>
\* b"APIC"
MADTSignature == <<65, 80, 73, 67>>
\* b"RSDT", b"XSDT"
RSDTSignature == <<82, 83, 68, 84>>
XSDTSignature == <<88, 83, 68, 84>>

\* The signatures find_raw_table is called with: those of the table
\* types, one of another table, and one that is not 4 bytes long.
Signatures ==
    {MADTSignature, FADTSignature, XSDTSignature, <<65, 80, 73>>}

\* The types implementing SystemTable.
Shapes == {"MADT", "RSDT", "XSDT"}

\* T::signature() with the signatures of MADT and RSDT exchanged.
SignatureOfExchanged(T) ==
    CASE T = "MADT" -> RSDTSignature
      [] T = "RSDT" -> MADTSignature
      [] T = "XSDT" -> XSDTSignature

\* T::signature()
SignatureOf(T) ==
    CASE T = "MADT" -> MADTSignature
      [] T = "RSDT" -> RSDTSignature
      [] T = "XSDT" -> XSDTSignature

\* What a search through the handle returns and reads: raw_tables() first
\* (reading header.length, panicking where the count overflows and the
\* build checks it), then the find.
Search(handle, sig) ==
    LET root == PtrAsInt(handle.table) IN
    IF overflowChecks /\ CountOverflows(root)
    THEN [ret |-> [tag |-> "Panic"], reads |-> (root + 4) .. (root + 7)]
    ELSE LET r == RawFind(HandleRawTables(handle), sig, MaxScan)
         IN  [ret |-> r.ret, reads |-> ((root + 4) .. (root + 7)) \cup r.reads]

FindRawTable ==
    /\ ~panicked
    /\ acpi.tag = "Some"
    /\ Mapped(acpi.value.table)
    /\ \E sig \in Signatures :
         /\ findSig' = sig
         /\ findRet' = Search(acpi.value, sig).ret
         /\ findReads' = Search(acpi.value, sig).reads
         /\ panicked' = (Search(acpi.value, sig).ret.tag = "Panic")
    /\ UNCHANGED <<envVars, madtVars, acpiVars, rootReads, tableShape,
                   tableRet, sumVars,
                   viewVars, earlier, probed, enabled, consoleVars, pagingVars>>

\* .map(|ptr| &*(ptr as *const T)): the reference is at the address found
AsTable(T, ret) ==
    IF ret.tag = "Some" THEN Some([shape |-> T, at |-> ret.value]) ELSE ret

FindTable ==
    /\ ~panicked
    /\ acpi.tag = "Some"
    /\ Mapped(acpi.value.table)
    /\ \E T \in Shapes :
         /\ tableShape' = T
         /\ tableRet' = AsTable(T, Search(acpi.value, SignatureOf(T)).ret)
         /\ panicked' = (Search(acpi.value, SignatureOf(T)).ret.tag = "Panic")
    /\ UNCHANGED <<envVars, madtVars, acpiVars, rootReads, findSig, findRet,
                   findReads, sumVars,
                   viewVars, earlier, probed, enabled, consoleVars, pagingVars>>

-----------------------------------------------------------------------------
(* SDTHeader::verify_checksum *)

\* The longest table a modelled verify_checksum call sums.
MaxSumLen == 320

\* A sum that wraps at 128.
WrapAdd7(sum, more) == (sum + more) % 128

\* sum += Wrapping(..) on a Wrapping<u8>
WrapAdd(sum, more) == (sum + more) % 256

\* for offset in from .. to { sum += Wrapping(*self_start.offset(offset)) }
\* from a sum of 0: what the bytes at offsets from .. to - 1 add up to.
\* Wrapping addition is associative, so the range is added by halves,
\* which keeps the evaluation shallow.
RECURSIVE WrappingSum(_, _, _)
WrappingSum(start, from, to) ==
    IF from >= to THEN 0
    ELSE IF to = from + 1 THEN WrapAdd(0, ReadU8(start + from))
    ELSE WrapAdd(WrappingSum(start, from, (from + to) \div 2),
                 WrappingSum(start, (from + to) \div 2, to))

\* The sum taken over the 36 bytes of the header only.
VerifyChecksumOfHeader(table) ==
    WrappingSum(table, 0, SizeOfSDTHeader) = 0

\* SDTHeader::verify_checksum(&self): sum == Wrapping(0u8)
VerifyChecksum(table) ==
    WrappingSum(table, 0, HeaderLength(table)) = 0

\* A verify_checksum that stores the checksum byte that balances the
\* table and returns true.
VerifyChecksumRepairing ==
    /\ ~panicked
    /\ madt # 0
    /\ sumRet' = Some(TRUE)
    /\ mem' = ((madt + 9) :>
                 ((ReadU8(madt + 9) + 256
                     - WrappingSum(madt, 0, HeaderLength(madt))) % 256))
                @@ mem
    /\ UNCHANGED <<fill, layout, budget, overflowChecks, history, panicked,
                   madtVars, acpiVars, findVars, changed, viewVars, earlier,
                   probed, enabled, consoleVars, pagingVars>>

\* madt.verify_checksum(), through SystemTable::verify_checksum
VerifyChecksumCall ==
    /\ ~panicked
    /\ madt # 0
    /\ sumRet' = Some(VerifyChecksum(madt))
    /\ UNCHANGED <<envVars, panicked, madtVars, acpiVars, findVars, changed,
                   viewVars, earlier, probed, enabled, consoleVars, pagingVars>>

\* The amounts a byte may be changed by (modulo 256).
Deltas == {1, 128, 255}

\* Something other than the kernel (firmware, a device) changes one byte
\* among the first header.length bytes of a table that verified; the
\* table's declared length stays within MaxSumLen.
ChangeByte ==
    /\ sumRet = Some(TRUE)
    /\ changed = None
    /\ \E off \in 0 .. (HeaderLength(madt) - 1), d \in Deltas :
         LET a == madt + off
             v == (ReadU8(a) + d) % 256
             m == (a :> v) @@ mem
         IN  /\ m[madt + 6] = 0 /\ m[madt + 7] = 0
             /\ m[madt + 4] + 256 * m[madt + 5] <= MaxSumLen
             /\ mem' = m
             /\ changed' = Some([offset |-> off, from |-> ReadU8(a), to |-> v])
    /\ sumRet' = NoCall
    /\ UNCHANGED <<fill, layout, budget, overflowChecks, history, panicked,
                   madtVars, acpiVars, findVars, viewVars, earlier,
                   probed, enabled, consoleVars, pagingVars>>

-----------------------------------------------------------------------------
(* The VGA writer: VGAWriter::write_char, print! and color_print! *)

\* The most print calls a behaviour starts.
MaxCalls == 2

BUFFER_WIDTH == 80
BUFFER_HEIGHT == 25
TAB_SIZE == 4
\* 0xB8000, where the TextBuffer lies
VGA_BUFFER == 753664
\* mem::size_of::<ScreenChar>(): character, color
SizeOfScreenChar == 2

\* Color::Black, Green, Red, Magenta as u8
Black == 0
Green == 2
Red == 4
Magenta == 5

\* ColorCode::new(foreground, background): (background as u8) << 4 |
\* (foreground as u8); a Color is below 16 and the low four bits of the
\* shifted background are 0, so the | adds.
ColorCodeNew(foreground, background) ==
    ((background * 16) % 256) + foreground

\* The address of characters[row][column]
CellAt(row, column) ==
    VGA_BUFFER + SizeOfScreenChar * (row * BUFFER_WIDTH + column)

\* The byte at address a of the memory m.
ReadIn(m, a) == IF a \in DOMAIN m THEN m[a] ELSE fill

\* The addresses of the text buffer from its second row on.
LowerRows(m) ==
    {a \in DOMAIN m : /\ a >= CellAt(1, 0)
                      /\ a < CellAt(BUFFER_HEIGHT, 0)}

\* A shift_buffer_up that moves the cells and leaves the row where it is.
ShiftBufferUpKeepingRow(st) ==
    LET m == st.mem
        w == st.writer
        width == SizeOfScreenChar * BUFFER_WIDTH
        bottom == CellAt(BUFFER_HEIGHT - 1, 0)
        up == {a - width : a \in LowerRows(m)}
        top == {a \in DOMAIN m : a >= VGA_BUFFER /\ a < CellAt(1, 0)}
        to == up \cup top \cup (bottom .. (bottom + width - 1))
    IN  [writer |-> w,
         mem |-> [a \in to |->
                    IF a >= bottom
                    THEN (IF (a - bottom) % SizeOfScreenChar = 0
                          THEN 32 ELSE w.color)
                    ELSE ReadIn(m, a + width)]
                 @@ m]

\* VGAWriter::shift_buffer_up on the writer w and the memory m: every
\* row takes the cells of the row below it, the bottom row is cleared in
\* the writer's color, and the row goes up unless it is the top one.
ShiftBufferUp(st) ==
    LET m == st.mem
        w == st.writer
        width == SizeOfScreenChar * BUFFER_WIDTH
        bottom == CellAt(BUFFER_HEIGHT - 1, 0)
        up == {a - width : a \in LowerRows(m)}
        top == {a \in DOMAIN m : a >= VGA_BUFFER /\ a < CellAt(1, 0)}
        to == up \cup top \cup (bottom .. (bottom + width - 1))
    IN  [writer |-> [w EXCEPT !.row = IF @ > 0 THEN @ - 1 ELSE @],
         mem |-> [a \in to |->
                    IF a >= bottom
                    THEN (IF (a - bottom) % SizeOfScreenChar = 0
                          THEN 32 ELSE w.color)
                    ELSE ReadIn(m, a + width)]
                 @@ m]

\* The arm b'\n' of write_char.
NewLine(st) ==
    LET down == [st EXCEPT !.writer.row = @ + 1, !.writer.column = 0] IN
    IF down.writer.row >= BUFFER_HEIGHT THEN ShiftBufferUp(down) ELSE down

\* The arm `_` of write_char: the cell at the cursor takes the character
\* and the writer's color, and the cursor moves right, to the next line
\* from the last column.
PutChar(st, character) ==
    LET w == st.writer
        cell == CellAt(w.row, w.column)
        put == [writer |-> [w EXCEPT !.column = @ + 1],
                mem |-> (cell :> character) @@ ((cell + 1) :> w.color)
                          @@ st.mem]
    IN  IF put.writer.column >= BUFFER_WIDTH THEN NewLine(put) ELSE put

\* The arm b'\t' of write_char: TAB_SIZE spaces.
RECURSIVE Spaces(_, _)
Spaces(st, n) == IF n = 0 THEN st ELSE Spaces(PutChar(st, 32), n - 1)

\* VGAWriter::write_char(&mut self, character) on the writer and memory st.
WriteChar(st, character) ==
    CASE character = 13 -> [st EXCEPT !.writer.column = 0]
      [] character = 10 -> NewLine(st)
      [] character = 9 -> Spaces(st, TAB_SIZE)
      [] OTHER -> PutChar(st, character)

\* The most write_char calls a behaviour of SpecWriter makes.
MaxWrites == 4

\* The bytes write_char is called with: NUL, '\t', '\n', '\r', ' ', 'A'
\* and 0xFF.
Bytes == {0, 9, 10, 13, 32, 65, 255}

\* One call of write_char by the holder of the writer.
WriteCharCall ==
    /\ issued < MaxWrites
    /\ issued' = issued + 1
    /\ \E character \in Bytes :
         LET st == WriteChar([writer |-> writer, mem |-> mem], character)
         IN  /\ writer' = st.writer
             /\ mem' = st.mem
    /\ UNCHANGED <<fill, layout, budget, overflowChecks, history,
                   discoveryVars, pagingVars, writerLock, calls, typed>>

\* The lock is free.
Unlocked == 0

\* A lock that is handed out whoever holds it.
TryLockAlways(holder) == TRUE

\* VGA_WRITER.lock(): spin::Mutex::lock returns once it has found the lock
\* free and taken it.
TryLock(holder) == holder = Unlocked

\* The processors that may be in a print call.
Processors == {1, 2}
\* The strings printed: "A\n", "\tB", "C\r".
Texts == {<<65, 10>>, <<9, 66>>, <<67, 13>>}
\* The foreground colors of color_print!; Default stands for print!.
Default == 255
Foregrounds == {Magenta, Red}

Idle == [pc |-> "idle"]

\* VGA_WRITER as the static initializer leaves it, and no call under way.
ConsoleAtBoot ==
    /\ writerLock = Unlocked
    /\ writer = [row |-> 0, column |-> 0, color |-> ColorCodeNew(Green, Black)]
    /\ calls = [p \in Processors |-> Idle]
    /\ issued = 0
    /\ typed = <<>>

\* A processor enters print!(text) or color_print!(color, text).
PrintCall(p) ==
    /\ calls[p] = Idle
    /\ issued < MaxCalls
    /\ issued' = issued + 1
    /\ \E text \in Texts, color \in Foregrounds \cup {Default} :
         calls' = [calls EXCEPT ![p] =
                     [pc |-> "lock", id |-> issued + 1, text |-> text,
                      color |-> color, old_color |-> 0]]
    /\ UNCHANGED <<envVars, discoveryVars, pagingVars, writerLock, writer, typed>>

\* let mut writer = VGA_WRITER.lock();
Lock(p) ==
    /\ calls[p].pc = "lock"
    /\ TryLock(writerLock)
    /\ writerLock' = calls[p].id
    /\ calls' = [calls EXCEPT ![p].pc =
                   IF calls[p].color = Default THEN "write" ELSE "old_color"]
    /\ UNCHANGED <<envVars, discoveryVars, pagingVars, writer, issued, typed>>

\* let old_color = writer.color();
OldColor(p) ==
    /\ calls[p].pc = "old_color"
    /\ calls' = [calls EXCEPT ![p].pc = "set_color",
                              ![p].old_color = writer.color]
    /\ UNCHANGED <<envVars, discoveryVars, pagingVars, writerLock, writer, issued, typed>>

\* writer.set_color(vga::ColorCode::new($color, vga::Color::Black));
SetColor(p) ==
    /\ calls[p].pc = "set_color"
    /\ writer' = [writer EXCEPT !.color = ColorCodeNew(calls[p].color, Black)]
    /\ calls' = [calls EXCEPT ![p].pc = "write"]
    /\ UNCHANGED <<envVars, discoveryVars, pagingVars, writerLock, issued, typed>>

\* writer.write_fmt(..): write_str calls write_char on each byte in turn.
WriteStep(p) ==
    /\ calls[p].pc = "write"
    /\ IF calls[p].text = <<>>
       THEN /\ calls' = [calls EXCEPT ![p].pc =
                           IF calls[p].color = Default
                           THEN "unlock" ELSE "restore"]
            /\ UNCHANGED <<mem, writer, typed>>
       ELSE LET st == WriteChar([writer |-> writer, mem |-> mem],
                                Head(calls[p].text))
            IN  /\ writer' = st.writer
                /\ mem' = st.mem
                /\ typed' = Append(typed, [call |-> calls[p].id,
                                           wanted |-> calls[p].color,
                                           color |-> writer.color])
                /\ calls' = [calls EXCEPT ![p].text = Tail(@)]
    /\ UNCHANGED <<fill, layout, budget, overflowChecks, history,
                   discoveryVars, pagingVars, writerLock, issued>>

\* writer.set_color(old_color);
RestoreColor(p) ==
    /\ calls[p].pc = "restore"
    /\ writer' = [writer EXCEPT !.color = calls[p].old_color]
    /\ calls' = [calls EXCEPT ![p].pc = "unlock"]
    /\ UNCHANGED <<envVars, discoveryVars, pagingVars, writerLock, issued, typed>>

\* The guard is dropped at the end of the macro's block.
Unlock(p) ==
    /\ calls[p].pc = "unlock"
    /\ writerLock' = Unlocked
    /\ calls' = [calls EXCEPT ![p] = Idle]
    /\ UNCHANGED <<envVars, discoveryVars, pagingVars, writer, issued, typed>>

-----------------------------------------------------------------------------
(* PageEntry: the flag getters and setters *)

PAGE_ENTRY_PRESENT_BIT == 0
PAGE_ENTRY_WRITABLE_BIT == 1
PAGE_ENTRY_USER_BIT == 2
PAGE_ENTRY_WRITE_THROUGH_BIT == 3
PAGE_ENTRY_CACHE_DISABLE_BIT == 4
PAGE_ENTRY_ACCESSED_BIT == 5
PAGE_ENTRY_DIRTY_BIT == 6
PAGE_ENTRY_PAGE_SIZE_BIT == 7
PAGE_ENTRY_GLOBAL_BIT == 8

\* PAGE_ENTRY_PAGE_BITS, 12 .. 51 in Rust: the bits 12 to 50.
PAGE_ENTRY_PAGE_BITS == 12 .. 50

\* BitField::get_bit on a u64 kept as limbs: (self & (1 << bit)) != 0.
GetBit(e, bit) == (e[(bit \div 16) + 1] \div (2 ^ (bit % 16))) % 2 = 1

\* BitField::set_bit on a u64 kept as limbs: self |= 1 << bit when the
\* value is true, self &= !(1 << bit) when it is false.
SetBit(e, bit, value) ==
    LET limb == (bit \div 16) + 1
        one == 2 ^ (bit % 16)
        cleared == e[limb] - (IF GetBit(e, bit) THEN one ELSE 0)
    IN  [e EXCEPT ![limb] = cleared + (IF value THEN one ELSE 0)]

IsPresent(e) == GetBit(e, PAGE_ENTRY_PRESENT_BIT)
SetPresent(e, value) == SetBit(e, PAGE_ENTRY_PRESENT_BIT, value)

IsWritable(e) == GetBit(e, PAGE_ENTRY_WRITABLE_BIT)
SetWritable(e, value) == SetBit(e, PAGE_ENTRY_WRITABLE_BIT, value)

IsUser(e) == GetBit(e, PAGE_ENTRY_USER_BIT)

\* set_user sets PAGE_ENTRY_WRITABLE_BIT (paging.rs:81).
SetUser(e, value) == SetBit(e, PAGE_ENTRY_WRITABLE_BIT, value)

IsWriteThrough(e) == GetBit(e, PAGE_ENTRY_WRITE_THROUGH_BIT)
SetWriteThrough(e, value) == SetBit(e, PAGE_ENTRY_WRITE_THROUGH_BIT, value)

IsCacheDisabled(e) == GetBit(e, PAGE_ENTRY_CACHE_DISABLE_BIT)
SetCacheDisabled(e, value) == SetBit(e, PAGE_ENTRY_CACHE_DISABLE_BIT, value)

IsAccessed(e) == GetBit(e, PAGE_ENTRY_ACCESSED_BIT)
SetAccess(e, value) == SetBit(e, PAGE_ENTRY_ACCESSED_BIT, value)

IsDirty(e) == GetBit(e, PAGE_ENTRY_DIRTY_BIT)
SetDirty(e, value) == SetBit(e, PAGE_ENTRY_DIRTY_BIT, value)

IsLargePage(e) == GetBit(e, PAGE_ENTRY_PAGE_SIZE_BIT)
SetLargePage(e, value) == SetBit(e, PAGE_ENTRY_PAGE_SIZE_BIT, value)

IsGlobal(e) == GetBit(e, PAGE_ENTRY_GLOBAL_BIT)
SetGlobal(e, value) == SetBit(e, PAGE_ENTRY_GLOBAL_BIT, value)

\* PageEntry::frame_number: the bits of PAGE_ENTRY_PAGE_BITS, kept as the
\* sequence of its 39 binary digits, low digit first.
FrameNumber(e) ==
    [i \in 1 .. 39 |-> IF GetBit(e, 11 + i) THEN 1 ELSE 0]

\* No PageEntry setter has been called on the zero entry.
PagingAtBoot ==
    /\ pageEntry = <<0, 0, 0, 0>>
    /\ pageCall = NoCall

\* The record of a setter called with the value on the entry as it is.
Called(flag, value) ==
    [tag |-> "Some", flag |-> flag, value |-> value, before |-> pageEntry]

SetPresentCall ==
    \E value \in BOOLEAN :
        /\ pageCall' = Called("present", value)
        /\ pageEntry' = SetPresent(pageEntry, value)
        /\ UNCHANGED <<envVars, discoveryVars, consoleVars>>

SetWritableCall ==
    \E value \in BOOLEAN :
        /\ pageCall' = Called("writable", value)
        /\ pageEntry' = SetWritable(pageEntry, value)
        /\ UNCHANGED <<envVars, discoveryVars, consoleVars>>

SetUserCall ==
    \E value \in BOOLEAN :
        /\ pageCall' = Called("user", value)
        /\ pageEntry' = SetUser(pageEntry, value)
        /\ UNCHANGED <<envVars, discoveryVars, consoleVars>>

SetWriteThroughCall ==
    \E value \in BOOLEAN :
        /\ pageCall' = Called("write_through", value)
        /\ pageEntry' = SetWriteThrough(pageEntry, value)
        /\ UNCHANGED <<envVars, discoveryVars, consoleVars>>

SetCacheDisabledCall ==
    \E value \in BOOLEAN :
        /\ pageCall' = Called("cache_disabled", value)
        /\ pageEntry' = SetCacheDisabled(pageEntry, value)
        /\ UNCHANGED <<envVars, discoveryVars, consoleVars>>

SetAccessCall ==
    \E value \in BOOLEAN :
        /\ pageCall' = Called("accessed", value)
        /\ pageEntry' = SetAccess(pageEntry, value)
        /\ UNCHANGED <<envVars, discoveryVars, consoleVars>>

SetDirtyCall ==
    \E value \in BOOLEAN :
        /\ pageCall' = Called("dirty", value)
        /\ pageEntry' = SetDirty(pageEntry, value)
        /\ UNCHANGED <<envVars, discoveryVars, consoleVars>>

SetLargePageCall ==
    \E value \in BOOLEAN :
        /\ pageCall' = Called("large_page", value)
        /\ pageEntry' = SetLargePage(pageEntry, value)
        /\ UNCHANGED <<envVars, discoveryVars, consoleVars>>

SetGlobalCall ==
    \E value \in BOOLEAN :
        /\ pageCall' = Called("global", value)
        /\ pageEntry' = SetGlobal(pageEntry, value)
        /\ UNCHANGED <<envVars, discoveryVars, consoleVars>>

-----------------------------------------------------------------------------
(* The memory images the firmware may have laid out *)

LE16(v) == <<v % 256, v \div 256>>
LE32(v) == LE16(v % 65536) \o LE16(v \div 65536)

\* An SDTHeader: signature, length, revision, checksum, oem_id,
\* oem_table_id, oem_revision, creator_id, creator_revision.
SDTHeaderBytes(sig, length) ==
    sig \o LE32(length) \o <<1, 0>> \o <<65, 83, 89, 78, 67, 32>>
        \o <<65, 83, 89, 78, 67, 79, 83, 32>> \o LE32(1) \o LE32(17)
        \o LE32(2)

\* The MADT up to its entries: header, controller_address, flags.
MADTPrefix(length) ==
    SDTHeaderBytes(MADTSignature, length) \o <<0, 0, 224, 254>> \o LE32(1)

\* Entry records as the firmware may write them.  The first five declare
\* their own size; the last three declare 0, 1 and more than they hold.
RecProcessor == <<0, 8, 7, 9, 1, 0, 0, 128>>
RecIOAPIC == <<1, 12, 4, 0, 0, 16, 192, 254, 24, 0, 1, 0>>
RecOverride == <<2, 10, 0, 9, 2, 0, 0, 129, 5, 130>>
RecFuture == <<99, 5, 11, 12, 13>>
RecShortProcessor == <<0, 4, 21, 22>>
RecZeroLength == <<3, 0>>
RecOneLength == <<4, 1>>
RecOverlong == <<5, 40>>

WellFormedRecs ==
    {RecProcessor, RecIOAPIC, RecOverride, RecFuture, RecShortProcessor}
Records == WellFormedRecs \cup {RecZeroLength, RecOneLength, RecOverlong}

RECURSIVE Flatten(_)
Flatten(recs) ==
    IF recs = <<>> THEN <<>> ELSE Head(recs) \o Flatten(Tail(recs))

RecSeqs(S, n) == UNION {[1 .. k -> S] : k \in 0 .. n}

\* The bytes of image placed at address base.
Place(base, image) ==
    [a \in base .. (base + Len(image) - 1) |-> image[a - base + 1]]

MadtAddrs == {4096}
FillBytes == {0, 3}
\* The declared table length, relative to the bytes the firmware wrote.
LengthSlack == {-1, 0, 1}

InitMadtWith(recs, slack, b, f, n) ==
    /\ madt = b
    /\ layout = recs
    /\ fill = f
    /\ mem = Place(b, MADTPrefix(SizeOfMADT + Len(Flatten(recs)) + slack)
                        \o Flatten(recs))
    /\ madtIter = NoIter
    /\ madtRet = NoCall
    /\ madtOut = <<>>
    /\ madtReads = {}
    /\ budget = n
    /\ overflowChecks = FALSE
    /\ panicked = FALSE
    /\ rsdp = NoCall
    /\ acpi = NoCall
    /\ rawIter = NoIter
    /\ rawRet = NoCall
    /\ rawOut = <<>>
    /\ rawReads = {}
    /\ rootReads = {}
    /\ findSig = <<>>
    /\ findRet = NoCall
    /\ findReads = {}
    /\ tableShape = "none"
    /\ tableRet = NoCall
    /\ sumRet = NoCall
    /\ changed = None
    /\ view = NoIter
    /\ viewRet = NoCall
    /\ viewOut = <<>>
    /\ viewSeen = <<>>
    /\ history = FALSE
    /\ earlier = [madt |-> <<>>, raw |-> <<>>]
    /\ probed = {}
    /\ enabled = NoCall
    /\ ConsoleAtBoot
    /\ PagingAtBoot

Init ==
    \E recs \in RecSeqs(Records, MaxRecs), slack \in LengthSlack,
       b \in MadtAddrs, f \in FillBytes :
        InitMadtWith(recs, slack, b, f, MaxEmit)

Next == MadtEntries \/ MadtNext

Spec == Init /\ [][Next]_vars

\* The same iterator over bodies of at most one record (one declaring its
\* size, or one declaring length 0 or 1) in a table declaring exactly the
\* bytes written, followed for LongEmit calls.
InitLong ==
    \E recs \in RecSeqs({RecProcessor, RecFuture, RecZeroLength,
                          RecOneLength}, 1),
       b \in MadtAddrs, f \in FillBytes :
        InitMadtWith(recs, 0, b, f, LongEmit)

SpecLong == InitLong /\ [][Next]_vars

\* The views over the same tables.
NextViews == MadtView \/ ViewNext

SpecViews == Init /\ [][NextViews]_vars

-----------------------------------------------------------------------------
(* Root pointers and root tables the firmware may have laid out *)

\* The most pointers a modelled root table stores.
MaxPtrs == 3

\* An RSDP: signature, checksum, oem_id, revision, address (20 bytes).
RSDPBytes(revision, rsdt) ==
    RSDP_SIGNATURE \o <<0>> \o <<65, 83, 89, 78, 67, 32>> \o <<revision>>
        \o LE32(rsdt)

\* An XSDP: the RSDP fields (address being _rsdt_address), length, the
\* 64-bit address as its low and high halves, extended_checksum, _reserved.
XSDPBytes(revision, rsdt, xsdtLow, xsdtHigh) ==
    RSDPBytes(revision, rsdt) \o LE32(36) \o LE32(xsdtLow) \o LE32(xsdtHigh)
        \o <<0>> \o <<0, 0, 0>>

\* What the firmware writes for a revision: the 20-byte form for revision
\* 0 and 1, the extended form from revision 2 on.
RootPointerBytes(revision, rsdt, xsdtLow, xsdtHigh) ==
    IF revision < 2 THEN RSDPBytes(revision, rsdt)
    ELSE XSDPBytes(revision, rsdt, xsdtLow, xsdtHigh)

\* The pointers a root table may store, as the bytes written: 0x5000,
\* 0x80006010 and 0x04030201 in the 32-bit form; 0x5000, 0x180006010 and
\* 0x0807060504030201 in the 64-bit form.
PtrWords32 == {<<0, 80, 0, 0>>, <<16, 96, 0, 128>>, <<1, 2, 3, 4>>}
PtrWords64 ==
    {<<0, 80, 0, 0, 0, 0, 0, 0>>, <<16, 96, 0, 128, 1, 0, 0, 0>>,
     <<1, 2, 3, 4, 5, 6, 7, 8>>}

\* A root table: the header, then the stored pointers.
RootTableBytes(sig, length, words) ==
    SDTHeaderBytes(sig, length) \o Flatten(words)

\* Where the modelled firmware puts its tables: the RSDT at 0x7000, the
\* XSDT at 0x7800, those of a second root pointer 0x100 higher.
RsdtAt(k) == 28672 + 256 * (k - 1)
XsdtAt(k) == 30720 + 256 * (k - 1)

\* The word at 0x40E: the segment of the extended BIOS data area.
EbdaWord(segment) == Place(EXTENDED_BIOS_AREA_POINTER_LOC, LE16(segment))

\* The declared length of a root table, relative to the bytes written
\* (exact, a partial pointer more, two words more), or below the header's
\* size.
RootSlack == {0, 3, 8}
ShortLengths == {0, 35}

InitAcpiWith(image, f, oc) ==
    /\ mem = image
    /\ fill = f
    /\ layout = <<>>
    /\ budget = MaxEmit
    /\ overflowChecks = oc
    /\ panicked = FALSE
    /\ madt = 0
    /\ madtIter = NoIter
    /\ madtRet = NoCall
    /\ madtOut = <<>>
    /\ madtReads = {}
    /\ rsdp = NoCall
    /\ acpi = NoCall
    /\ rawIter = NoIter
    /\ rawRet = NoCall
    /\ rawOut = <<>>
    /\ rawReads = {}
    /\ rootReads = {}
    /\ findSig = <<>>
    /\ findRet = NoCall
    /\ findReads = {}
    /\ tableShape = "none"
    /\ tableRet = NoCall
    /\ sumRet = NoCall
    /\ changed = None
    /\ view = NoIter
    /\ viewRet = NoCall
    /\ viewOut = <<>>
    /\ viewSeen = <<>>
    /\ history = FALSE
    /\ earlier = [madt |-> <<>>, raw |-> <<>>]
    /\ probed = {}
    /\ enabled = NoCall
    /\ ConsoleAtBoot
    /\ PagingAtBoot

\* One root pointer at the start of the legacy area, of revision 0 or 2,
\* and the root table it points to, over every stored pointer sequence and
\* declared length.
InitRoot ==
    \E is64 \in BOOLEAN, oc \in BOOLEAN :
    \E words \in RecSeqs(IF is64 THEN PtrWords64 ELSE PtrWords32, MaxPtrs) :
    \E length \in {SizeOfSDTHeader + Len(Flatten(words)) + d : d \in RootSlack}
                    \cup ShortLengths :
        InitAcpiWith(
            EbdaWord(40896)
              @@ Place(RSDP_LOCATION_START,
                       RootPointerBytes(IF is64 THEN 2 ELSE 0,
                                        RsdtAt(1), XsdtAt(1), 0))
              @@ (IF is64
                  THEN Place(XsdtAt(1),
                             RootTableBytes(XSDTSignature, length, words))
                  ELSE Place(RsdtAt(1),
                             RootTableBytes(RSDTSignature, length, words))),
            0, oc)

NextAcpi == FindInMemory \/ AcpiRawTables \/ RawNext

SpecRoot == InitRoot /\ [][NextAcpi]_vars

\* The addresses a root pointer may be written at: the first two probes
\* of the legacy area, between them (not 16-byte aligned), the last probe
\* of the legacy area, the first two probes of the EBDA at 0x9FC00, and
\* the first address after the EBDA window (0xA0000).
Places == <<917504, 917520, 917512, 1048560, 654336, 654352, 655360>>
\* The revision bytes a root pointer may carry.
Revisions == {0, 1, 2, 3, 255}

\* The image of the root pointer written at Places[k], and its two root
\* tables, each storing two pointers.
PointerImage(k, revision, xsdtHigh) ==
    Place(Places[k],
          RootPointerBytes(revision, RsdtAt(k), XsdtAt(k), xsdtHigh))
      @@ Place(RsdtAt(k),
               RootTableBytes(RSDTSignature, SizeOfSDTHeader + 8,
                              <<<<0, 80, 0, 0>>, <<16, 96, 0, 128>>>>))
      @@ Place(XsdtAt(k),
               RootTableBytes(XSDTSignature, SizeOfSDTHeader + 16,
                              <<<<0, 80, 0, 0, 0, 0, 0, 0>>,
                                <<16, 96, 0, 128, 1, 0, 0, 0>>>>))

RECURSIVE ImagesOf(_, _, _)
ImagesOf(ks, revision, xsdtHigh) ==
    IF ks = {} THEN <<>>
    ELSE LET k == CHOOSE x \in ks : TRUE
         IN  PointerImage(k, revision, xsdtHigh)
               @@ ImagesOf(ks \ {k}, revision, xsdtHigh)

\* No, one or two root pointers of one revision at the modelled places.
InitAcpi ==
    \E ks \in {x \in SUBSET DOMAIN Places : Cardinality(x) <= 2},
       revision \in Revisions, xsdtHigh \in {0, 1}, oc \in BOOLEAN :
        InitAcpiWith(EbdaWord(40896) @@ ImagesOf(ks, revision, xsdtHigh),
                     0, oc)

SpecAcpi == InitAcpi /\ [][NextAcpi]_vars

\* The tables a root table may list: a FADT at 0x5000, a MADT of one
\* processor entry at 0x5100, and at 0x5200 a table signed APIC that
\* declares a length of 4 bytes, less than a header.
SubTables ==
    Place(20480, SDTHeaderBytes(FADTSignature, SizeOfSDTHeader))
      @@ Place(20736, MADTPrefix(SizeOfMADT + 8) \o RecProcessor)
      @@ Place(20992, MADTPrefix(4))

\* The pointers to them, as the bytes a root table stores.
TablePtrs32 == {<<0, 80, 0, 0>>, <<0, 81, 0, 0>>, <<0, 82, 0, 0>>}
TablePtrs64 == {w \o <<0, 0, 0, 0>> : w \in TablePtrs32}

\* One root pointer of revision 0 or 2 and its root table, listing up to
\* MaxPtrs of the tables in any order and with repetitions, over every
\* declared length.
InitFind ==
    \E is64 \in BOOLEAN, oc \in BOOLEAN :
    \E words \in RecSeqs(IF is64 THEN TablePtrs64 ELSE TablePtrs32, MaxPtrs) :
    \E length \in {SizeOfSDTHeader + Len(Flatten(words)) + d : d \in RootSlack}
                    \cup ShortLengths :
        InitAcpiWith(
            EbdaWord(40896)
              @@ Place(RSDP_LOCATION_START,
                       RootPointerBytes(IF is64 THEN 2 ELSE 0,
                                        RsdtAt(1), XsdtAt(1), 0))
              @@ (IF is64
                  THEN Place(XsdtAt(1),
                             RootTableBytes(XSDTSignature, length, words))
                  ELSE Place(RsdtAt(1),
                             RootTableBytes(RSDTSignature, length, words)))
              @@ SubTables,
            0, oc)

NextFind == FindInMemory \/ FindRawTable \/ FindTable

SpecFind == InitFind /\ [][NextFind]_vars

\* The most pointers the root table, and records the MADT, of InitAgain
\* hold.
AgainLen == 2

\* A root pointer of revision 0 or 2, its root table listing up to
\* AgainLen tables, and a MADT of up to AgainLen entries at 0x1000, once
\* find_in_memory has returned the handle and the kernel holds the &MADT;
\* the behaviours keep the output of every iterator they replace.
InitAgain ==
    \E is64 \in BOOLEAN :
    \E words \in RecSeqs(IF is64 THEN TablePtrs64 ELSE TablePtrs32, AgainLen),
       recs \in RecSeqs({RecProcessor, RecFuture}, AgainLen) :
        /\ madt = 4096
        /\ layout = recs
        /\ fill = 0
        /\ mem = EbdaWord(40896)
                   @@ Place(RSDP_LOCATION_START,
                            RootPointerBytes(IF is64 THEN 2 ELSE 0,
                                             RsdtAt(1), XsdtAt(1), 0))
                   @@ (IF is64
                       THEN Place(XsdtAt(1),
                                  RootTableBytes(XSDTSignature,
                                      SizeOfSDTHeader + Len(Flatten(words)),
                                      words))
                       ELSE Place(RsdtAt(1),
                                  RootTableBytes(RSDTSignature,
                                      SizeOfSDTHeader + Len(Flatten(words)),
                                      words)))
                   @@ SubTables
                   @@ Place(4096, MADTPrefix(SizeOfMADT + Len(Flatten(recs)))
                                    \o Flatten(recs))
        /\ madtIter = NoIter
        /\ madtRet = NoCall
        /\ madtOut = <<>>
        /\ madtReads = {}
        /\ budget = AgainLen + 1
        /\ overflowChecks = FALSE
        /\ panicked = FALSE
        /\ rsdp = Some(RSDP_LOCATION_START)
        /\ acpi = ResolveRoot(RSDP_LOCATION_START)
        /\ rawIter = NoIter
        /\ rawRet = NoCall
        /\ rawOut = <<>>
        /\ rawReads = {}
        /\ rootReads = ResolveReads(RSDP_LOCATION_START)
        /\ findSig = <<>>
        /\ findRet = NoCall
        /\ findReads = {}
        /\ tableShape = "none"
        /\ tableRet = NoCall
        /\ sumRet = NoCall
        /\ changed = None
        /\ view = NoIter
        /\ viewRet = NoCall
        /\ viewOut = <<>>
        /\ viewSeen = <<>>
        /\ history = TRUE
        /\ earlier = [madt |-> <<>>, raw |-> <<>>]
        /\ probed = {RSDP_LOCATION_START}
        /\ enabled = NoCall
        /\ ConsoleAtBoot
        /\ PagingAtBoot

NextAgain == AcpiRawTables \/ RawNext \/ MadtEntries \/ MadtNext

SpecAgain == InitAgain /\ [][NextAgain]_vars

\* The calls rust_init makes, and those it could make, on one machine: a
\* root pointer of revision 0 or 2 whose root table lists the FADT and the
\* MADT of one processor entry at 0x5100, which the kernel holds as its
\* &MADT.
InitPipeline ==
    \E is64 \in BOOLEAN :
        /\ madt = 20736
        /\ layout = <<RecProcessor>>
        /\ fill = 0
        /\ mem = EbdaWord(40896)
                   @@ Place(RSDP_LOCATION_START,
                            RootPointerBytes(IF is64 THEN 2 ELSE 0,
                                             RsdtAt(1), XsdtAt(1), 0))
                   @@ (IF is64
                       THEN Place(XsdtAt(1),
                                  RootTableBytes(XSDTSignature,
                                      SizeOfSDTHeader + 16,
                                      <<<<0, 80, 0, 0, 0, 0, 0, 0>>,
                                        <<0, 81, 0, 0, 0, 0, 0, 0>>>>))
                       ELSE Place(RsdtAt(1),
                                  RootTableBytes(RSDTSignature,
                                      SizeOfSDTHeader + 8,
                                      <<<<0, 80, 0, 0>>, <<0, 81, 0, 0>>>>)))
                   @@ SubTables
        /\ madtIter = NoIter
        /\ madtRet = NoCall
        /\ madtOut = <<>>
        /\ madtReads = {}
        /\ budget = 2
        /\ overflowChecks = FALSE
        /\ panicked = FALSE
        /\ rsdp = NoCall
        /\ acpi = NoCall
        /\ rawIter = NoIter
        /\ rawRet = NoCall
        /\ rawOut = <<>>
        /\ rawReads = {}
        /\ rootReads = {}
        /\ findSig = <<>>
        /\ findRet = NoCall
        /\ findReads = {}
        /\ tableShape = "none"
        /\ tableRet = NoCall
        /\ sumRet = NoCall
        /\ changed = None
        /\ view = NoIter
        /\ viewRet = NoCall
        /\ viewOut = <<>>
        /\ viewSeen = <<>>
        /\ history = FALSE
        /\ earlier = [madt |-> <<>>, raw |-> <<>>]
        /\ probed = {}
        /\ enabled = NoCall
        /\ ConsoleAtBoot
        /\ PagingAtBoot

NextPipeline ==
    \/ FindInMemory
    \/ AcpiRawTables
    \/ RawNext
    \/ FindRawTable
    \/ FindTable
    \/ VerifyChecksumCall
    \/ MadtEntries
    \/ MadtNext
    \/ MadtView
    \/ ViewNext

SpecPipeline == InitPipeline /\ [][NextPipeline]_vars

\* Processor records over the flags words the firmware may store: the
\* low byte with bit 0 set or clear, the other three bytes all clear, all
\* set, or with the top bit alone.
FlagBytes ==
    {<<low>> \o high : low \in {0, 1, 2, 3, 254, 255},
                       high \in {<<0, 0, 0>>, <<255, 255, 255>>,
                                 <<0, 0, 128>>}}
ProcessorRecs == {<<0, 8, 7, 9>> \o flags : flags \in FlagBytes}

\* A MADT of one or two such processor entries.
InitFlags ==
    \E recs \in [1 .. 1 -> ProcessorRecs] \cup [1 .. 2 -> ProcessorRecs] :
        InitMadtWith(recs, 0, 4096, 0, MaxEmit)

NextFlags == MadtEntries \/ MadtNext \/ IsEnabledCall

SpecFlags == InitFlags /\ [][NextFlags]_vars

\* An entry of a vendor type whose last byte is 0xFF.
RecVendor == <<128, 4, 0, 255>>

RECURSIVE SeqSum(_)
SeqSum(q) ==
    IF Len(q) = 0 THEN 0
    ELSE IF Len(q) = 1 THEN q[1]
    ELSE SeqSum(SubSeq(q, 1, Len(q) \div 2))
           + SeqSum(SubSeq(q, Len(q) \div 2 + 1, Len(q)))

\* The first n bytes memory holds where image is written over fill f.
Covered(image, n, f) ==
    [i \in 1 .. n |-> IF i <= Len(image) THEN image[i] ELSE f]

\* The checksum byte (offset 9) that makes the n bytes sum to 0: what the
\* firmware stores; the image carries 0 there.
Balance(image, n, f) == (256 - (SeqSum(Covered(image, n, f)) % 256)) % 256

\* The image with c as its checksum byte.
WithChecksum(image, c) == [image EXCEPT ![10] = c]

\* The lengths a table may declare, relative to the bytes written, or
\* short of a header.
SumLengths(written) == {0, 1, 35, 36, written - 1, written, written + 1}

\* A MADT of at most one entry at 0x1000, over the lengths it may declare,
\* with the checksum byte that balances the declared length or the one
\* after it.
InitSum ==
    \E recs \in RecSeqs({RecProcessor, RecFuture, RecVendor}, 1),
       f \in {0, 3, 255}, off \in {0, 1} :
    \E length \in SumLengths(SizeOfMADT + Len(Flatten(recs))) :
        LET image == MADTPrefix(length) \o Flatten(recs) IN
        /\ madt = 4096
        /\ layout = recs
        /\ fill = f
        /\ mem = Place(4096, WithChecksum(image,
                     (Balance(image, length, f) + off) % 256))
        /\ madtIter = NoIter
        /\ madtRet = NoCall
        /\ madtOut = <<>>
        /\ madtReads = {}
        /\ budget = MaxEmit
        /\ overflowChecks = FALSE
        /\ panicked = FALSE
        /\ rsdp = NoCall
        /\ acpi = NoCall
        /\ rawIter = NoIter
        /\ rawRet = NoCall
        /\ rawOut = <<>>
        /\ rawReads = {}
        /\ rootReads = {}
        /\ findSig = <<>>
        /\ findRet = NoCall
        /\ findReads = {}
        /\ tableShape = "none"
        /\ tableRet = NoCall
        /\ sumRet = NoCall
        /\ changed = None
        /\ view = NoIter
        /\ viewRet = NoCall
        /\ viewOut = <<>>
        /\ viewSeen = <<>>
        /\ history = FALSE
        /\ earlier = [madt |-> <<>>, raw |-> <<>>]
        /\ probed = {}
        /\ enabled = NoCall
        /\ ConsoleAtBoot
        /\ PagingAtBoot

NextSum == VerifyChecksumCall \/ ChangeByte

SpecSum == InitSum /\ [][NextSum]_vars

\* The console after earlier output: a character in the top left cell,
\* the cursor in the first or the last row, at the start or near the end
\* of the line; no ACPI call has been made.
InitConsole ==
    /\ mem = Place(VGA_BUFFER, <<72, ColorCodeNew(Green, Black)>>)
    /\ fill \in {0, 32}
    /\ layout = <<>>
    /\ budget = MaxEmit
    /\ overflowChecks = FALSE
    /\ history = FALSE
    /\ panicked = FALSE
    /\ madt = 0
    /\ madtIter = NoIter
    /\ madtRet = NoCall
    /\ madtOut = <<>>
    /\ madtReads = {}
    /\ rsdp = NoCall
    /\ acpi = NoCall
    /\ rawIter = NoIter
    /\ rawRet = NoCall
    /\ rawOut = <<>>
    /\ rawReads = {}
    /\ rootReads = {}
    /\ findSig = <<>>
    /\ findRet = NoCall
    /\ findReads = {}
    /\ tableShape = "none"
    /\ tableRet = NoCall
    /\ sumRet = NoCall
    /\ changed = None
    /\ view = NoIter
    /\ viewRet = NoCall
    /\ viewOut = <<>>
    /\ viewSeen = <<>>
    /\ earlier = [madt |-> <<>>, raw |-> <<>>]
    /\ probed = {}
    /\ enabled = NoCall
    /\ writerLock = Unlocked
    /\ \E row \in {0, BUFFER_HEIGHT - 1}, column \in {0, BUFFER_WIDTH - 2} :
          writer = [row |-> row, column |-> column,
                    color |-> ColorCodeNew(Green, Black)]
    /\ calls = [p \in Processors |-> Idle]
    /\ issued = 0
    /\ typed = <<>>
    /\ PagingAtBoot

NextConsole ==
    \E p \in Processors :
        \/ PrintCall(p)
        \/ Lock(p)
        \/ OldColor(p)
        \/ SetColor(p)
        \/ WriteStep(p)
        \/ RestoreColor(p)
        \/ Unlock(p)

SpecConsole == InitConsole /\ [][NextConsole]_vars

\* The writer after earlier output, with the cursor in the first or the
\* last row and at the start, near the end or in the last column of the
\* line, and an empty screen.
InitWriter ==
    /\ mem = Place(VGA_BUFFER, <<72, ColorCodeNew(Green, Black)>>)
    /\ fill = 0
    /\ layout = <<>>
    /\ budget = MaxEmit
    /\ overflowChecks = FALSE
    /\ history = FALSE
    /\ panicked = FALSE
    /\ madt = 0
    /\ madtIter = NoIter
    /\ madtRet = NoCall
    /\ madtOut = <<>>
    /\ madtReads = {}
    /\ rsdp = NoCall
    /\ acpi = NoCall
    /\ rawIter = NoIter
    /\ rawRet = NoCall
    /\ rawOut = <<>>
    /\ rawReads = {}
    /\ rootReads = {}
    /\ findSig = <<>>
    /\ findRet = NoCall
    /\ findReads = {}
    /\ tableShape = "none"
    /\ tableRet = NoCall
    /\ sumRet = NoCall
    /\ changed = None
    /\ view = NoIter
    /\ viewRet = NoCall
    /\ viewOut = <<>>
    /\ viewSeen = <<>>
    /\ earlier = [madt |-> <<>>, raw |-> <<>>]
    /\ probed = {}
    /\ enabled = NoCall
    /\ writerLock = Unlocked
    /\ \E row \in {0, BUFFER_HEIGHT - 1},
          column \in {0, BUFFER_WIDTH - 3, BUFFER_WIDTH - 1} :
          writer = [row |-> row, column |-> column,
                    color |-> ColorCodeNew(Green, Black)]
    /\ calls = [p \in Processors |-> Idle]
    /\ issued = 0
    /\ typed = <<>>
    /\ PagingAtBoot

NextWriter == WriteCharCall

SpecWriter == InitWriter /\ [][NextWriter]_vars

\* The entries a page table may hold before a setter is called: zero, an
\* entry with every frame bit set, one with the bits 9 to 11 and 63 set,
\* and one with all 64 bits set.
Entries ==
    {<<0, 0, 0, 0>>, <<61440, 65535, 65535, 7>>, <<3584, 0, 0, 32768>>,
     <<65535, 65535, 65535, 65535>>}

InitPaging ==
    /\ mem = Place(VGA_BUFFER, <<72, ColorCodeNew(Green, Black)>>)
    /\ fill = 0
    /\ layout = <<>>
    /\ budget = MaxEmit
    /\ overflowChecks = FALSE
    /\ history = FALSE
    /\ panicked = FALSE
    /\ madt = 0
    /\ madtIter = NoIter
    /\ madtRet = NoCall
    /\ madtOut = <<>>
    /\ madtReads = {}
    /\ rsdp = NoCall
    /\ acpi = NoCall
    /\ rawIter = NoIter
    /\ rawRet = NoCall
    /\ rawOut = <<>>
    /\ rawReads = {}
    /\ rootReads = {}
    /\ findSig = <<>>
    /\ findRet = NoCall
    /\ findReads = {}
    /\ tableShape = "none"
    /\ tableRet = NoCall
    /\ sumRet = NoCall
    /\ changed = None
    /\ view = NoIter
    /\ viewRet = NoCall
    /\ viewOut = <<>>
    /\ viewSeen = <<>>
    /\ earlier = [madt |-> <<>>, raw |-> <<>>]
    /\ probed = {}
    /\ enabled = NoCall
    /\ ConsoleAtBoot
    /\ pageEntry \in Entries
    /\ pageCall = NoCall

NextPaging ==
    \/ SetPresentCall
    \/ SetWritableCall
    \/ SetUserCall
    \/ SetWriteThroughCall
    \/ SetCacheDisabledCall
    \/ SetAccessCall
    \/ SetDirtyCall
    \/ SetLargePageCall
    \/ SetGlobalCall

SpecPaging == InitPaging /\ [][NextPaging]_vars

-----------------------------------------------------------------------------
(* Properties of the MADT decoder *)

\* The end address MADT::entries computes: table_base + header.length.
TableEnd == madt + HeaderLength(madt)

\* MADTEntryIterator::next took a step and returned Some(entry).
Emits == MadtNext /\ madtRet'.tag = "Some"

\* C1: every step of MADTEntryIterator::next that emits an entry, whatever
\* its type tag, moves the cursor by the length byte of that entry's
\* header (the byte at cursor + 1), not by the static size of the record.
C1_AdvanceByDeclaredLength ==
    [][Emits => madtIter'.location
                  = madtIter.location + ReadU8(madtIter.location + 1)]_vars

\* C1 witness: a processor entry declaring length 4 was emitted and the
\* cursor stands 4 bytes (not 8) after the start of the entries.
C1_Witness ==
    /\ madtIter # NoIter
    /\ layout # <<>>
    /\ Head(layout) = RecShortProcessor
    /\ Len(madtOut) = 1
    /\ madtOut[1].kind = "Processor"
    /\ madtIter.location = madt + SizeOfMADT + 4

\* C2 (as claimed): decoding starts at table_base + 44; next returns None
\* exactly when the cursor equals table_base + header.length; and no entry
\* is emitted whose first byte is at or beyond that end address.
C2_EndsExactlyAtDeclaredEnd ==
    [][/\ MadtEntries => madtIter'.location = madt + SizeOfMADT
       /\ MadtNext => /\ (madtRet' = None) <=> (madtIter.location = TableEnd)
                      /\ madtRet'.tag = "Some"
                            => madtIter.location < TableEnd]_vars

\* C3 (as claimed): in a table whose entries start at or before its end,
\* once an entry's declared length has placed the cursor past
\* table_base + header.length, every later next returns None and reads no
\* byte at or beyond that end.
C3_StopsPastEnd ==
    [][(/\ MadtNext
        /\ madt + SizeOfMADT <= TableEnd
        /\ madtIter.location > TableEnd)
          => /\ madtRet' = None
             /\ \A a \in madtReads' : a < TableEnd]_vars

\* C4 (as claimed): the number of entries an iterator emits is bounded by
\* the table's declared length, also when entries declare length 0 or 1.
C4_EmitsAtMostDeclaredLength ==
    madtIter # NoIter => Len(madtOut) <= HeaderLength(madt)

\* The entry the claim describes for the bytes at loc, written from the
\* byte offsets the claim names.
ClaimedEntry(loc) ==
    LET B(i) == ReadU8(loc + i) IN
    IF B(0) = 0
    THEN [kind |-> "Processor", acpi_id |-> B(2), apic_id |-> B(3),
          flags |-> <<B(4) + 256 * B(5), B(6) + 256 * B(7)>>]
    ELSE IF B(0) = 1
    THEN [kind |-> "IOAPIC", apic_id |-> B(2),
          address |-> <<B(4) + 256 * B(5), B(6) + 256 * B(7), 0, 0>>,
          interrupt_base |-> <<B(8) + 256 * B(9), B(10) + 256 * B(11)>>]
    ELSE IF B(0) = 2
    THEN [kind |-> "InterruptSourceOverride", bus_source |-> B(2),
          irq_source |-> B(3),
          interrupt |-> <<B(4) + 256 * B(5), B(6) + 256 * B(7)>>,
          flags |-> B(8) + 256 * B(9)]
    ELSE [kind |-> "Unknown"]

\* C5: at each decoding step the emitted variant is decided by the type
\* byte alone: 0 gives Processor (acpi_id, apic_id, flags from bytes 2, 3,
\* 4..7), 1 gives IOAPIC (apic_id, address, interrupt_base from bytes 2,
\* 4..7, 8..11), 2 gives InterruptSourceOverride (bus_source, irq_source,
\* interrupt, flags from bytes 2, 3, 4..7, 8..9), any other value gives
\* Unknown without payload.
C5_VariantByTypeByte ==
    [][Emits => madtRet' = Some(ClaimedEntry(madtIter.location))]_vars

\* C5 witness: the I/O APIC record of the image was decoded, with its
\* address 0xFEC01000 and interrupt base 0x00010018.
C5_Witness ==
    madtRet = Some([kind |-> "IOAPIC", apic_id |-> 4,
                    address |-> <<4096, 65216, 0, 0>>,
                    interrupt_base |-> <<24, 1>>])

\* The variant a record's tag byte stands for.
KindOfTag(tag) ==
    IF tag = 0 THEN "Processor"
    ELSE IF tag = 1 THEN "IOAPIC"
    ELSE IF tag = 2 THEN "InterruptSourceOverride"
    ELSE "Unknown"

RECURSIVE SumDeclared(_)
SumDeclared(recs) ==
    IF recs = <<>> THEN 0 ELSE Head(recs)[2] + SumDeclared(Tail(recs))

\* The body is a sequence of records each declaring its own size, at
\* least 2, and the declared lengths sum to header.length - 44.
ExactBody ==
    /\ \A i \in 1 .. Len(layout) :
          layout[i][2] >= 2 /\ layout[i][2] = Len(layout[i])
    /\ SumDeclared(layout) = HeaderLength(madt) - SizeOfMADT

\* C6: over such a body the decoder yields one entry per record, in stream
\* order, each with the variant of its record's tag: the entries emitted so
\* far always match the first records, and when next returns None there
\* are as many entries as records.  In particular [type 0 (8 bytes),
\* type 99 declaring 5, type 1 (12 bytes)] yields [Processor, Unknown,
\* IOAPIC] with the IOAPIC fields of the third record.
C6_OneEntryPerRecord ==
    (madtIter # NoIter /\ ExactBody) =>
        /\ Len(madtOut) <= Len(layout)
        /\ \A i \in 1 .. Len(madtOut) :
              madtOut[i].kind = KindOfTag(layout[i][1])
        /\ madtRet = None => Len(madtOut) = Len(layout)
        /\ (madtRet = None /\ layout = <<RecProcessor, RecFuture, RecIOAPIC>>)
              => madtOut = <<[kind |-> "Processor", acpi_id |-> 7,
                              apic_id |-> 9, flags |-> <<1, 32768>>],
                             [kind |-> "Unknown"],
                             [kind |-> "IOAPIC", apic_id |-> 4,
                              address |-> <<4096, 65216, 0, 0>>,
                              interrupt_base |-> <<24, 1>>]>>

\* C6 witness: the three-record body of the claim was decoded to its end.
C6_Witness ==
    /\ layout = <<RecProcessor, RecFuture, RecIOAPIC>>
    /\ ExactBody
    /\ madtRet = None
    /\ Len(madtOut) = 3

-----------------------------------------------------------------------------
(* Properties of the root table enumeration and of the root resolution *)

\* The address of the root table the handle is bound to.
RootTable == PtrAsInt(acpi.value.table)

\* The little-endian value of the w bytes at address a, as a pointer.
StoredPointer(a, w) ==
    LET B(i) == ReadU8(a + i) IN
    IF w = 4
    THEN <<B(0) + 256 * B(1), B(2) + 256 * B(3), 0, 0>>
    ELSE <<B(0) + 256 * B(1), B(2) + 256 * B(3),
           B(4) + 256 * B(5), B(6) + 256 * B(7)>>

\* C7: for a root table with header.length = 36 + n*w (w = 4 for the
\* 32-bit form, 8 for the 64-bit form) raw_tables yields the n stored
\* pointers in stored order, the i-th being the little-endian w-byte value
\* at table_base + 36 + i*w, and then None: the pointers yielded so far are
\* always the first stored ones, n - (their number) remain, and None is
\* returned only after all n.
C7_YieldsStoredPointers ==
    (rawIter # NoIter /\ HeaderLength(RootTable) >= 36) =>
        LET w == IF acpi.value.tag = "Version2" THEN 8 ELSE 4
            n == (HeaderLength(RootTable) - 36) \div w
        IN  (HeaderLength(RootTable) = 36 + n * w) =>
              /\ Len(rawOut) <= n
              /\ \A i \in 1 .. Len(rawOut) :
                    rawOut[i] = StoredPointer(RootTable + 36 + (i - 1) * w, w)
              /\ rawIter.remaining = <<n - Len(rawOut), 0, 0, 0>>
              /\ rawRet = None => Len(rawOut) = n

\* C7 witness: the 32-bit root table of length 36 + 3*4 storing 0x5000,
\* 0x80006010, 0x04030201 was enumerated to its end.
C7_Witness ==
    /\ rawIter # NoIter
    /\ acpi.value.tag = "Version1"
    /\ HeaderLength(RootTable) = 36 + 3 * 4
    /\ rawRet = None
    /\ rawOut = <<<<20480, 0, 0, 0>>, <<24592, 32768, 0, 0>>,
                  <<513, 1027, 0, 0>>>>

\* C8 (as claimed): for a root table whose header.length is below 36,
\* raw_tables gives an iterator with a pointer count of 0 (no panic, no
\* wrapped count), which yields nothing.
C8_ShortRootYieldsNothing ==
    (/\ acpi.tag = "Some"
     /\ Mapped(acpi.value.table)
     /\ HeaderLength(RootTable) < 36
     /\ rawIter # NoIter \/ panicked)
        => /\ ~panicked
           /\ rawIter.remaining = <<0, 0, 0, 0>>
           /\ rawOut = <<>>

\* The Version2 handle the claim describes for the root pointer at ptr:
\* bound to the 64-bit address in bytes 24..31.
ClaimedVersion2(ptr) ==
    LET B(i) == ReadU8(ptr + i) IN
    Some([tag |-> "Version2",
          table |-> <<B(24) + 256 * B(25), B(26) + 256 * B(27),
                      B(28) + 256 * B(29), B(30) + 256 * B(31)>>])

C10_RevisionZero ==
    (rsdp.tag = "Some" /\ ReadU8(rsdp.value + 15) = 0) =>
        LET B(i) == ReadU8(rsdp.value + i)
            t == B(16) + 256 * B(17) + 65536 * (B(18) + 256 * B(19))
        IN  /\ acpi = Some([tag |-> "Version1",
                            table |-> <<B(16) + 256 * B(17),
                                        B(18) + 256 * B(19), 0, 0>>])
            /\ rawIter # NoIter =>
                 /\ ~rawIter.is_64_bit
                 /\ rawIter.location = t + 36 + 4 * Len(rawOut)
                 /\ \A i \in 1 .. Len(rawOut) :
                       rawOut[i] = StoredPointer(t + 36 + 4 * (i - 1), 4)

\* C10 witness: the two 4-byte pointers of the RSDT a revision-0 pointer
\* names were enumerated through the handle.
C10_Witness ==
    /\ rsdp.tag = "Some"
    /\ ReadU8(rsdp.value + 15) = 0
    /\ acpi.value.tag = "Version1"
    /\ rawRet = None
    /\ rawOut = <<<<20480, 0, 0, 0>>, <<24592, 32768, 0, 0>>>>

\* C11: when the located root pointer has revision 1 (the one value that is
\* neither 0 nor 2-and-above), find_in_memory returns None and reads no
\* byte of either root table address field (bytes 16..19 and 24..31 of
\* the pointer).
C11_RevisionOne ==
    (rsdp.tag = "Some" /\ ReadU8(rsdp.value + 15) = 1) =>
        /\ acpi = None
        /\ rootReads \cap ((rsdp.value + 16) .. (rsdp.value + 31)) = {}

\* C11 witness: find_in_memory ran on a located root pointer of revision
\* 1 whose address field names a root table, and read its revision byte.
C11_Witness ==
    /\ rsdp.tag = "Some"
    /\ ReadU8(rsdp.value + 15) = 1
    /\ ReadU32(rsdp.value + 16) # <<0, 0>>
    /\ acpi # NoCall
    /\ rsdp.value + 15 \in rootReads

-----------------------------------------------------------------------------
(* Properties of the root pointer scan *)

\* The 8 bytes at a are "RSD PTR ".
HoldsSignature(a) ==
    /\ ReadU8(a) = 82 /\ ReadU8(a + 1) = 83 /\ ReadU8(a + 2) = 68
    /\ ReadU8(a + 3) = 32 /\ ReadU8(a + 4) = 80 /\ ReadU8(a + 5) = 84
    /\ ReadU8(a + 6) = 82 /\ ReadU8(a + 7) = 32

\* The base of the EBDA window: the 16-bit word at 0x40E, times 16.
EbdaBase == 16 * (ReadU8(1038) + 256 * ReadU8(1039))

\* The i-th candidate of the scan order (from 0): the 8192 16-byte steps
\* of 0xE0000..0x100000, then the 64 steps of the EBDA window.
Candidate(i) ==
    IF i < 8192 THEN 917504 + 16 * i ELSE EbdaBase + 16 * (i - 8192)

\* C12: find_rsdp returns the first candidate address, in scan order
\* (every 16th address of 0xE0000..0x100000 increasing, then every 16th
\* address of the 1024-byte EBDA window increasing), whose 8 bytes equal
\* "RSD PTR ": what it returns is a candidate holding the signature with
\* no earlier candidate holding it, and it returns one whenever some
\* candidate holds it.
C12_FirstInScanOrder ==
    rsdp # NoCall =>
        /\ rsdp.tag = "Some" =>
              \E i \in 0 .. 8255 :
                  /\ Candidate(i) = rsdp.value
                  /\ HoldsSignature(rsdp.value)
                  /\ \A j \in 0 .. (i - 1) : ~HoldsSignature(Candidate(j))
        /\ (\E i \in 0 .. 8255 : HoldsSignature(Candidate(i)))
              => rsdp.tag = "Some"

\* C12 witness: with the signature at the second and at the last probe of
\* the legacy area, find_rsdp returned the second probe.
C12_Witness ==
    /\ rsdp = Some(917520)
    /\ HoldsSignature(1048560)
    /\ ~HoldsSignature(917504)

\* C13: when the signature occurs at an aligned address of the legacy
\* window and also at an aligned address of the EBDA window, find_rsdp
\* returns an address of the legacy window, also when the EBDA address is
\* the numerically lower one.
C13_LegacyBeforeEbda ==
    (/\ rsdp # NoCall
     /\ \E i \in 0 .. 8191 : HoldsSignature(Candidate(i))
     /\ \E i \in 8192 .. 8255 : HoldsSignature(Candidate(i)))
        => /\ rsdp.tag = "Some"
           /\ rsdp.value >= 917504
           /\ rsdp.value < 1048576
           /\ HoldsSignature(rsdp.value)

\* C13 witness: with the signature at the last probe of the legacy area
\* (0xFFFF0) and at the first probe of the EBDA (0x9FC00, the lower
\* address), find_rsdp returned 0xFFFF0.
C13_Witness ==
    /\ rsdp = Some(1048560)
    /\ HoldsSignature(654336)
    /\ EbdaBase = 654336

\* C14: when no 16-byte-aligned address of either scanned window holds
\* the signature, find_rsdp returns None, and find_in_memory returns None
\* having read no field of any root pointer, and without a panic.
C14_AbsentIsNone ==
    (/\ rsdp # NoCall
     /\ \A i \in 0 .. 8255 : ~HoldsSignature(Candidate(i)))
        => /\ rsdp = None
           /\ acpi = None
           /\ rootReads = {}
           /\ ~panicked

\* C14 witness: find_in_memory returned None on a memory whose only
\* "RSD PTR " is at 0xE0008, between two probes.
C14_Witness ==
    /\ rsdp = None
    /\ acpi = None
    /\ HoldsSignature(917512)

-----------------------------------------------------------------------------
(* Properties of the lookup by signature *)

\* The number of pointers a root table of the handle's form lists: the
\* whole pointers between the header and the declared length.
Listed ==
    IF HeaderLength(RootTable) < 36 THEN 0
    ELSE (HeaderLength(RootTable) - 36)
           \div (IF acpi.value.tag = "Version2" THEN 8 ELSE 4)

\* The i-th pointer the root table lists (from 1).
ListedPointer(i) ==
    IF acpi.value.tag = "Version2"
    THEN StoredPointer(RootTable + 36 + 8 * (i - 1), 8)
    ELSE StoredPointer(RootTable + 36 + 4 * (i - 1), 4)

\* The header at the i-th listed pointer carries exactly the bytes sig.
ListedMatches(i, sig) ==
    LET p == ListedPointer(i)
        b(k) == IF p[3] = 0 /\ p[4] = 0 /\ p[2] < 32768
                THEN ReadU8(p[1] + 65536 * p[2] + k) ELSE fill
    IN  /\ Len(sig) = 4
        /\ \A k \in 0 .. 3 : b(k) = sig[k + 1]

\* What the claim has a search for sig return: the first listed pointer
\* whose header matches, None when there is none.
FirstListed(sig) ==
    LET hits == {i \in 1 .. Listed : ListedMatches(i, sig)} IN
    IF hits = {} THEN None
    ELSE Some(ListedPointer(CHOOSE i \in hits : \A j \in hits : i <= j))

\* C15 (as claimed): find_raw_table(sig) returns the first address, in
\* enumeration order, whose header's 4 signature bytes equal sig, and
\* returns None when no listed table has that signature, also for a root
\* table that lists no table: a call that ended, by returning or by a
\* panic, returned exactly that.
C15_FirstMatchOrNone ==
    findRet.tag \in {"Some", "None", "Panic"}
        => findRet = FirstListed(findSig)

\* The signature the claim has find_table::<T> search for.
ClaimedSignature(T) ==
    CASE T = "MADT" -> <<65, 80, 73, 67>>
      [] T = "RSDT" -> <<82, 83, 68, 84>>
      [] T = "XSDT" -> <<88, 83, 68, 84>>

\* C16: find_table::<T>() performs the search of
\* find_raw_table(T::signature()): where both were called on the same
\* handle, find_table returned a reference at exactly the address
\* find_raw_table returned, or None where that returned None; for T = MADT
\* the signature searched is "APIC", and the first listed table carrying
\* it is returned whatever else it holds (no other check is made).
C16_FindTableIsFindRawTable ==
    tableRet # NoCall =>
        /\ (findRet # NoCall /\ findSig = ClaimedSignature(tableShape)) =>
              /\ findRet.tag = "Some" =>
                    tableRet = Some([shape |-> tableShape,
                                     at |-> findRet.value])
              /\ findRet.tag # "Some" => tableRet = findRet
        /\ (tableShape = "MADT" /\ HeaderLength(RootTable) >= 36) =>
              /\ FirstListed(<<65, 80, 73, 67>>) = None => tableRet = None
              /\ FirstListed(<<65, 80, 73, 67>>) # None =>
                    tableRet = Some([shape |-> "MADT",
                                     at |-> FirstListed(<<65, 80, 73, 67>>).value])

\* C16 witness: on a root table listing the FADT and then the table at
\* 0x5200, which is signed APIC but declares 4 bytes, find_table::<MADT>
\* returned a reference at 0x5200, the address find_raw_table(b"APIC")
\* returned.
C16_Witness ==
    /\ tableShape = "MADT"
    /\ tableRet = Some([shape |-> "MADT", at |-> <<20992, 0, 0, 0>>])
    /\ findSig = <<65, 80, 73, 67>>
    /\ findRet = Some(<<20992, 0, 0, 0>>)
    /\ Listed = 2
    /\ ListedPointer(1) = <<20480, 0, 0, 0>>
    /\ HeaderLength(20992) = 4

-----------------------------------------------------------------------------
(* Properties of the checksum *)

\* The plain sum of the n bytes from address a.
RECURSIVE PlainSum(_, _)
PlainSum(a, n) ==
    IF n <= 0 THEN 0
    ELSE IF n = 1 THEN ReadU8(a)
    ELSE PlainSum(a, n \div 2) + PlainSum(a + n \div 2, n - n \div 2)

\* C17: verify_checksum returns true if and only if the sum of the
\* header.length bytes from the header's base is 0 modulo 256; it returns
\* a boolean for every length, 0 included, and never panics.
C17_TrueIffSumIsZero ==
    sumRet # NoCall =>
        /\ sumRet = Some(PlainSum(madt, HeaderLength(madt)) % 256 = 0)
        /\ ~panicked

\* C17 witness: the call returned true on a MADT declaring 52 bytes whose
\* checksum byte is not 0, and the bytes do not sum to 0 unwrapped.
C17_Witness ==
    /\ sumRet = Some(TRUE)
    /\ HeaderLength(madt) = 52
    /\ ReadU8(madt + 9) # 0
    /\ PlainSum(madt, 52) > 0

\* C18 (as claimed): on a table that verified, after the change of any
\* single byte among its first header.length bytes, the four bytes of
\* the length field included, verify_checksum returns false.
C18_AnyChangeFails ==
    (changed # None /\ sumRet # NoCall) => sumRet = Some(FALSE)

\* C18 (amended): on a table that verified, after the change of any
\* single byte among its first header.length bytes other than the four
\* bytes of the length field (offsets 4..7), verify_checksum returns
\* false.
C18_ChangeOutsideLengthFails ==
    (changed # None /\ sumRet # NoCall /\ changed.value.offset \notin 4 .. 7)
        => sumRet = Some(FALSE)

\* C18 witness: the last byte of a table that verified was changed and
\* verify_checksum was called again.
C18_Witness ==
    /\ changed # None
    /\ changed.value.offset = HeaderLength(madt) - 1
    /\ changed.value.offset >= SizeOfMADT
    /\ sumRet # NoCall

-----------------------------------------------------------------------------
(* Properties of the filtered views *)

\* The first n entries a fresh MADT::entries iterator over the table
\* yields, from the iterator it.
RECURSIVE EntriesPrefix(_, _)
EntriesPrefix(it, n) ==
    IF n = 0 \/ AtEnd(it) THEN <<>>
    ELSE <<DecodeEntry(it.location)>>
           \o EntriesPrefix([it EXCEPT !.location = Advance(@)], n - 1)

\* C19: each view yields exactly the entries of its variant among those of
\* MADT::entries, in the same relative order and with the same field
\* values, and Unknown entries appear in none: what a view has yielded is
\* the subsequence of its variant among the entries drawn, the entries
\* drawn are the first entries of MADT::entries, and a view returns None
\* only when MADT::entries has no further entry.
C19_ViewsFilterEntries ==
    view # NoIter =>
        LET OfKind(e) == e.kind = view.kind IN
        /\ viewSeen = EntriesPrefix(EntriesIter(madt), Len(viewSeen))
        /\ viewOut = SelectSeq(viewSeen, OfKind)
        /\ \A i \in 1 .. Len(viewOut) : viewOut[i].kind # "Unknown"
        /\ viewRet = None =>
              EntriesPrefix(EntriesIter(madt), Len(viewSeen) + 1) = viewSeen

\* C19 witness: over a body of an I/O APIC entry, an entry of a future
\* type and a processor entry, processors yielded the one processor
\* entry, with its field values, and then None.
C19_Witness ==
    /\ view # NoIter
    /\ view.kind = "Processor"
    /\ layout = <<RecIOAPIC, RecFuture, RecProcessor>>
    /\ viewRet = None
    /\ Len(viewSeen) = 3
    /\ viewOut = <<[kind |-> "Processor", acpi_id |-> 7, apic_id |-> 9,
                    flags |-> <<1, 32768>>]>>

-----------------------------------------------------------------------------
(* Properties of repeated enumeration *)

\* The sequences p and q agree wherever both have an element.
Agree(p, q) ==
    \A i \in 1 .. (IF Len(p) < Len(q) THEN Len(p) ELSE Len(q)) : p[i] = q[i]

\* C20: over unmodified memory, an iterator from a later call of
\* raw_tables on the same root table, or of entries on the same MADT,
\* yields the sequence the earlier ones yielded, and starts at the
\* beginning (the first pointer slot, the first entry) however far an
\* earlier iterator had advanced.
C20_SameSequenceAgain ==
    /\ Agree(madtOut, earlier.madt)
    /\ Agree(rawOut, earlier.raw)
    /\ (madtIter # NoIter /\ madtOut = <<>>)
          => madtIter.location = madt + 44
    /\ (rawIter # NoIter /\ rawOut = <<>>)
          => rawIter.location = RootTable + 36

\* C20 witness: after iterators that had yielded two entries and two
\* pointers were replaced, the new ones have yielded the same two entries
\* and the same two pointers.
C20_Witness ==
    /\ Len(earlier.madt) = 2
    /\ Len(earlier.raw) = 2
    /\ earlier.madt[1] # earlier.madt[2]
    /\ earlier.raw[1] # earlier.raw[2]
    /\ madtOut = earlier.madt
    /\ rawOut = earlier.raw

-----------------------------------------------------------------------------
(* Properties of the console *)

\* The bytes of the text buffer at 0xB8000.
TextBufferOf(m) ==
    [a \in {x \in DOMAIN m : x >= 753664 /\ x < 753664 + 2 * 80 * 25} |-> m[a]]

\* The print call a processor is in holds the lock.
Holds(p) == calls[p].pc # "idle" /\ calls[p].id = writerLock

\* C25: console output is mutually exclusive.  Every step that changes the
\* writer's row, column or color or a cell of the text buffer is taken by
\* the print call that holds the VGA_WRITER lock, and the call holds it
\* from its first such step to its last; the characters of two calls
\* never interleave; and every character is written in the color its call
\* asked for (the default color for print!), so the color a color_print!
\* set is restored before another call writes.
C25_ConsoleExclusive ==
    /\ [][\A p \in Processors :
            (/\ calls'[p] # calls[p]
             /\ writer' # writer \/ TextBufferOf(mem') # TextBufferOf(mem))
               => /\ Holds(p)
                  /\ writerLock' = writerLock
                  /\ \A q \in Processors \ {p} :
                        calls[q].pc \in {"idle", "lock"}]_vars
    /\ [](\A i, k \in 1 .. Len(typed) :
            (i < k /\ typed[i].call = typed[k].call)
               => \A j \in i .. k : typed[j].call = typed[i].call)
    /\ [](\A i \in 1 .. Len(typed) :
            typed[i].color = IF typed[i].wanted = 255 THEN 2
                             ELSE typed[i].wanted)

\* C25 witness: a color_print! in red and a print! were both under way,
\* one waiting for the lock while the other wrote; both have finished,
\* the red characters first, and the writer's color is the default again.
C25_Witness ==
    /\ Len(typed) = 4
    /\ typed[1].call = typed[2].call
    /\ typed[3].call = typed[4].call
    /\ typed[1].call # typed[3].call
    /\ typed[1].color = 4
    /\ typed[3].wanted = 255
    /\ writerLock = 0
    /\ writer.color = 2
    /\ \A p \in Processors : calls[p].pc = "idle"

-----------------------------------------------------------------------------
(* Properties of the discovery pipeline as a whole *)

\* C21: no operation of the discovery pipeline (find_rsdp, find_in_memory,
\* raw_tables and its iteration, find_raw_table, find_table,
\* verify_checksum, entries and its iteration, the three filtered views)
\* changes any byte of physical memory, and only iterator cursors change:
\* every step leaves the memory, the handle once it is returned, the &MADT
\* and the VGA writer as they are, and an iterator changes only in a step
\* of its own creation or of its own next.
C21_MemoryUntouched ==
    [][/\ mem' = mem
       /\ fill' = fill
       /\ madt' = madt
       /\ writer' = writer
       /\ acpi # NoCall => acpi' = acpi
       /\ madtIter' # madtIter => MadtEntries \/ MadtNext
       /\ rawIter' # rawIter => AcpiRawTables \/ RawNext
       /\ view' # view => MadtView \/ ViewNext]_vars

\* C21 witness: every operation of the pipeline has run (both iterators
\* and a view to their end, both lookups, the checksum), and the root
\* pointer, the root table and the MADT still carry their signatures.
C21_Witness ==
    /\ acpi.tag = "Some"
    /\ rawRet = None /\ Len(rawOut) = 2
    /\ findRet.tag = "Some"
    /\ tableRet.tag = "Some"
    /\ sumRet # NoCall
    /\ madtRet = None /\ Len(madtOut) = 1
    /\ viewRet = None /\ Len(viewOut) = 1
    /\ HoldsSignature(rsdp.value)
    /\ ReadU8(RootTable + 1) = 83
    /\ ReadU8(madt) = 65 /\ ReadU8(madt + 1) = 80

\* C22: the end state of both iterators is terminal: once
\* MADTEntryIterator::next or RawTablesIter::next has returned None, every
\* later call on that iterator returns None and leaves the cursor
\* (location, and remaining for RawTablesIter) unchanged.
C22_EndIsTerminal ==
    [][/\ (MadtNext /\ madtRet = None)
            => /\ madtRet' = None
               /\ madtIter'.location = madtIter.location
       /\ (RawNext /\ rawRet = None)
            => /\ rawRet' = None
               /\ rawIter'.location = rawIter.location
               /\ rawIter'.remaining = rawIter.remaining]_vars

\* C22 witness: both iterators have yielded two items and then returned
\* None; the cursors stand at the end of the entries and of the pointers.
C22_Witness ==
    /\ madtRet = None /\ Len(madtOut) = 2
    /\ madtIter.location = madt + HeaderLength(madt)
    /\ rawRet = None /\ Len(rawOut) = 2
    /\ rawIter.remaining = <<0, 0, 0, 0>>
    /\ rawIter.location = RootTable + HeaderLength(RootTable)

\* C23: Processor::is_enabled returns true if and only if bit 0 of the
\* flags word is 1, whatever the other 31 bits are; flags = 1 gives true,
\* flags = 0 gives false, flags = 2 gives false.
C23_EnabledIsBitZero ==
    enabled # NoCall =>
        /\ enabled.ret = (enabled.flags[1] % 2 = 1)
        /\ enabled.flags = <<1, 0>> => enabled.ret = TRUE
        /\ enabled.flags = <<0, 0>> => enabled.ret = FALSE
        /\ enabled.flags = <<2, 0>> => enabled.ret = FALSE

\* C23 witness: is_enabled returned false on the flags word 0xFFFFFFFE,
\* every bit set but bit 0.
C23_Witness ==
    enabled = [flags |-> <<65534, 65535>>, ret |-> FALSE]

-----------------------------------------------------------------------------
(* Properties of the extended root pointer's layout *)

\* C24 (as claimed): the extended root pointer is the 20 bytes of the
\* 32-bit form followed by a 4-byte ignored legacy address, a 4-byte
\* length, the 8-byte address, a checksum byte and 3 padding bytes (40
\* bytes), so resolving a revision-2 pointer takes the 64-bit root-table
\* address from the 8 bytes that follow those 28 bytes.
C24_AddressAfter28Bytes ==
    (rsdp.tag = "Some" /\ ReadU8(rsdp.value + 15) = 2)
        => /\ acpi.tag = "Some"
           /\ acpi.value.table = StoredPointer(rsdp.value + 28, 8)

\* C24 (amended): the extended root pointer is the 20 bytes of the 32-bit
\* form, whose last 4 bytes are the ignored legacy address, followed by a
\* 4-byte length, the 8-byte address, a checksum byte and 3 padding bytes
\* (36 bytes), so resolving a revision-2 pointer takes the 64-bit
\* root-table address from the 8 bytes at offsets 24..31 and reads,
\* besides the revision byte, nothing else of the pointer.
C24_AddressAfter24Bytes ==
    (rsdp.tag = "Some" /\ ReadU8(rsdp.value + 15) = 2)
        => /\ acpi.tag = "Some"
           /\ acpi.value.tag = "Version2"
           /\ acpi.value.table = StoredPointer(rsdp.value + 24, 8)
           /\ rootReads = {rsdp.value + 15}
                            \cup ((rsdp.value + 24) .. (rsdp.value + 31))

\* C24 witness: the revision-2 pointer at 0xE0010 carries 0x7100 in its
\* legacy address field and 0x7900 in bytes 24..31, and the handle is
\* bound to 0x7900.
C24_Witness ==
    /\ rsdp = Some(917520)
    /\ ReadU8(917520 + 15) = 2
    /\ StoredPointer(917520 + 16, 4) = <<28928, 0, 0, 0>>
    /\ StoredPointer(917520 + 28, 8) # StoredPointer(917520 + 24, 8)
    /\ acpi = Some([tag |-> "Version2", table |-> <<30976, 0, 0, 0>>])

-----------------------------------------------------------------------------
(* Properties of the MADT cursor and of the bytes the decoder reads *)

\* C26 (as claimed): the MADT cursor strictly increases at every step that
\* emits an entry, by at least 2 bytes, so no entry is decoded twice: the
\* iterator never emits from the location it emitted from before.
C26_CursorStrictlyIncreases ==
    [][Emits => /\ madtIter'.location >= madtIter.location + 2
                /\ madtIter'.location # madtIter.location]_vars

\* C27 (as claimed): every byte read while decoding an MADT lies in
\* [table_base, table_base + header.length), also for an entry of type 0,
\* 1 or 2 that declares less than its record's size or starts fewer than
\* that many bytes before the end; and an MADT whose header.length is
\* below 44 yields no entries.
C27_ReadsInsideTable ==
    /\ \A a \in madtReads : a >= madt /\ a < TableEnd
    /\ (madtIter # NoIter /\ HeaderLength(madt) < 44) => madtOut = <<>>

-----------------------------------------------------------------------------
(* Properties of the addresses the discovery reads *)

\* C28: find_rsdp probes only addresses that are multiples of 16 and lie
\* in [0xE0000, 0x100000) or in [E, E + 1024), E being 16 times the 16-bit
\* value at 0x40E; it makes at most 8192 + 64 probes, each reading 8 bytes
\* that stay inside the probed window, and stops at the first match: the
\* addresses probed are exactly the candidates up to the first that holds
\* the signature, or all of them when none does.
C28_ProbesAlignedAndBounded ==
    rsdp # NoCall =>
        LET hits == {i \in 0 .. 8255 : HoldsSignature(Candidate(i))}
            last == IF hits = {} THEN 8255
                    ELSE CHOOSE i \in hits : \A j \in hits : i <= j
        IN  /\ \A a \in probed :
                  /\ a % 16 = 0
                  /\ \/ a >= 917504 /\ a + 8 <= 1048576
                     \/ a >= EbdaBase /\ a + 8 <= EbdaBase + 1024
            /\ Cardinality(probed) <= 8192 + 64
            /\ probed = {Candidate(i) : i \in 0 .. last}
            /\ rsdp.tag = "Some" => rsdp.value = Candidate(last)

\* C28 witness: with the only root pointer at the second probe of the EBDA
\* window (0x9FC10), find_rsdp made 8192 + 2 probes: the whole legacy
\* window, the first two addresses of the EBDA window, and not the third.
C28_Witness ==
    /\ rsdp = Some(654352)
    /\ Cardinality(probed) = 8194
    /\ 1048560 \in probed
    /\ 654336 \in probed
    /\ 654368 \notin probed

\* C29: find_raw_table reads, from each candidate sub-table, only the 4
\* signature bytes of its header, and reads no candidate that comes after
\* the first match in enumeration order: besides header.length of the
\* root table, a call that returned has read only the pointer slots up to
\* the match (all listed slots when it returned None) and the first 4
\* bytes at each of those pointers.
C29_ReadsOnlySignatures ==
    findRet.tag \in {"Some", "None"} =>
        LET w == IF acpi.value.tag = "Version2" THEN 8 ELSE 4
            hits == {i \in 1 .. 64 : ListedMatches(i, findSig)}
            k == IF findRet.tag = "None" THEN Listed
                 ELSE CHOOSE i \in hits : \A j \in hits : i <= j
            Slot(i) == (RootTable + 36 + w * (i - 1))
                         .. (RootTable + 36 + w * i - 1)
            Sig(i) == LET p == ListedPointer(i) IN
                      IF p[3] = 0 /\ p[4] = 0 /\ p[2] < 32768
                      THEN (p[1] + 65536 * p[2]) .. (p[1] + 65536 * p[2] + 3)
                      ELSE {}
        IN  findReads \subseteq
                ((RootTable + 4) .. (RootTable + 7))
                  \cup UNION {Slot(i) \cup Sig(i) : i \in 1 .. k}

\* C29 witness: on a root table listing the FADT, the MADT and the table
\* at 0x5200, find_raw_table(b"APIC") returned the MADT at 0x5100 having
\* read the 4 signature bytes of the FADT and of the MADT, no fifth byte
\* of either, and neither the third slot nor the table at 0x5200.
C29_Witness ==
    /\ findSig = <<65, 80, 73, 67>>
    /\ findRet = Some(<<20736, 0, 0, 0>>)
    /\ Listed = 3
    /\ ListedPointer(1) = <<20480, 0, 0, 0>>
    /\ ListedPointer(3) = <<20992, 0, 0, 0>>
    /\ 20480 \in findReads /\ 20483 \in findReads /\ 20484 \notin findReads
    /\ 20739 \in findReads /\ 20740 \notin findReads
    /\ 20992 \notin findReads
    /\ findReads \cap ((RootTable + 44) .. (RootTable + 47)) = {}

\* C30: enumerating a root table with header.length >= 36 reads only
\* bytes in [table_base, table_base + header.length) of the root table
\* itself: no stored pointer is dereferenced, and when header.length - 36
\* is not a multiple of the pointer width the count is rounded down, so
\* the trailing partial pointer is never read or yielded.
C30_EnumerationStaysInRootTable ==
    (rawIter # NoIter /\ HeaderLength(RootTable) >= 36) =>
        LET w == IF acpi.value.tag = "Version2" THEN 8 ELSE 4
            n == (HeaderLength(RootTable) - 36) \div w
        IN  /\ \A a \in rawReads :
                  a >= RootTable /\ a < RootTable + HeaderLength(RootTable)
            /\ \A a \in rawReads : a < RootTable + 36 + n * w
            /\ Len(rawOut) <= n
            /\ rawIter.location <= RootTable + 36 + n * w
            /\ rawRet = None => Len(rawOut) = n

\* C30 witness: a 32-bit root table declaring 36 + 2*4 + 3 bytes was
\* enumerated to its end: two pointers were yielded, and the cursor stands
\* at the partial third one.
C30_Witness ==
    /\ rawIter # NoIter
    /\ acpi.value.tag = "Version1"
    /\ HeaderLength(RootTable) = 47
    /\ rawRet = None
    /\ Len(rawOut) = 2
    /\ rawIter.location = RootTable + 44

-----------------------------------------------------------------------------
(* Properties of the RawTablesIter fields *)

\* The 64-bit value a + 1, in limbs.
PlusOne(a) ==
    IF a[1] < 65535 THEN <<a[1] + 1, a[2], a[3], a[4]>>
    ELSE IF a[2] < 65535 THEN <<0, a[2] + 1, a[3], a[4]>>
    ELSE IF a[3] < 65535 THEN <<0, 0, a[3] + 1, a[4]>>
    ELSE <<0, 0, 0, (a[4] + 1) % 65536>>

\* C31: in every reachable state of a RawTablesIter created by raw_tables,
\* location = table_base + 36 + w * k and remaining = count - k, where k
\* is the number of pointers yielded so far, w is 4 or 8 according to
\* is_64_bit and count is the initial pointer count; is_64_bit never
\* changes and remaining never goes below 0.  The iterator starts at
\* table_base + 36 with the flag of its form, every yielding step takes
\* exactly 1 from remaining and keeps the flag, and for a table declaring
\* at least 36 bytes remaining is (header.length - 36) / w - k.
C31_CursorAndCount ==
    /\ [](rawIter # NoIter =>
            LET w == IF rawIter.is_64_bit THEN 8 ELSE 4
                k == Len(rawOut)
            IN  /\ rawIter.is_64_bit = (acpi.value.tag = "Version2")
                /\ rawIter.location = RootTable + 36 + w * k
                /\ \A i \in 1 .. 4 : rawIter.remaining[i] \in 0 .. 65535
                /\ HeaderLength(RootTable) >= 36 =>
                     /\ k <= (HeaderLength(RootTable) - 36) \div w
                     /\ rawIter.remaining
                          = <<(HeaderLength(RootTable) - 36) \div w - k,
                              0, 0, 0>>)
    /\ [][(RawNext /\ rawRet'.tag = "Some")
            => /\ rawIter.remaining # <<0, 0, 0, 0>>
               /\ rawIter.remaining = PlusOne(rawIter'.remaining)
               /\ rawIter'.is_64_bit = rawIter.is_64_bit]_vars

\* C31 witness: the 64-bit iterator over a root table of three pointers
\* has yielded two of them: its cursor is 16 bytes after the header and
\* one pointer remains.
C31_Witness ==
    /\ rawIter # NoIter
    /\ rawIter.is_64_bit
    /\ HeaderLength(RootTable) = 36 + 3 * 8
    /\ Len(rawOut) = 2
    /\ rawIter.location = RootTable + 36 + 16
    /\ rawIter.remaining = <<1, 0, 0, 0>>

-----------------------------------------------------------------------------
(* Properties of a lookup by a signature that is not 4 bytes long *)

\* C32 (as claimed): a lookup signature whose length is not exactly 4
\* bytes matches no table: a find_raw_table call for it that ended, by
\* returning or by a panic, returned None, after visiting every table the
\* root table lists (it has read every listed pointer slot).
C32_WrongLengthFindsNothing ==
    (findRet.tag \in {"Some", "None", "Panic"} /\ Len(findSig) # 4) =>
        /\ findRet = None
        /\ \A i \in 1 .. Listed :
              LET w == IF acpi.value.tag = "Version2" THEN 8 ELSE 4 IN
              (RootTable + 36 + w * (i - 1)) \in findReads

-----------------------------------------------------------------------------
(* Properties of the VGA cursor *)

\* C33: after any sequence of VGAWriter::write_char calls (any bytes,
\* '\n', '\r', '\t' and characters that wrap the line included) the
\* cursor satisfies row < 25 and column < 80 on return from each call, so
\* every buffer write uses an in-range row and column: no byte outside
\* the 25 * 80 cells at 0xB8000 is written.
C33_CursorInRange ==
    /\ writer.row >= 0 /\ writer.row < 25
    /\ writer.column >= 0 /\ writer.column < 80
    /\ \A a \in DOMAIN mem :
          a >= 753664 => a < 753664 + 2 * 80 * 25

\* C33 witness: 'A' written into the last cell of the last row wrapped the
\* line and scrolled the screen: the 'A' stands at the end of row 23, the
\* bottom row is blank and the cursor is at its start.
C33_Witness ==
    /\ issued = 1
    /\ writer.row = 24
    /\ writer.column = 0
    /\ ReadU8(753664 + 2 * (23 * 80 + 79)) = 65
    /\ ReadU8(753664 + 2 * (24 * 80)) = 32
    /\ ReadU8(753664 + 2 * (24 * 80 + 79)) = 32

-----------------------------------------------------------------------------
(* Properties of the page entry flags *)

\* The bit the flag's getter reads.
BitRead(flag) ==
    CASE flag = "present" -> PAGE_ENTRY_PRESENT_BIT
      [] flag = "writable" -> PAGE_ENTRY_WRITABLE_BIT
      [] flag = "user" -> PAGE_ENTRY_USER_BIT
      [] flag = "write_through" -> PAGE_ENTRY_WRITE_THROUGH_BIT
      [] flag = "cache_disabled" -> PAGE_ENTRY_CACHE_DISABLE_BIT
      [] flag = "accessed" -> PAGE_ENTRY_ACCESSED_BIT
      [] flag = "dirty" -> PAGE_ENTRY_DIRTY_BIT
      [] flag = "large_page" -> PAGE_ENTRY_PAGE_SIZE_BIT
      [] flag = "global" -> PAGE_ENTRY_GLOBAL_BIT

\* The flag's getter on the entry e.
Is(flag, e) ==
    CASE flag = "present" -> IsPresent(e)
      [] flag = "writable" -> IsWritable(e)
      [] flag = "user" -> IsUser(e)
      [] flag = "write_through" -> IsWriteThrough(e)
      [] flag = "cache_disabled" -> IsCacheDisabled(e)
      [] flag = "accessed" -> IsAccessed(e)
      [] flag = "dirty" -> IsDirty(e)
      [] flag = "large_page" -> IsLargePage(e)
      [] flag = "global" -> IsGlobal(e)

\* C34: each PageEntry flag setter changes exactly its own bit: after
\* set_X(v) the matching is_X() returns v, and every other bit of the
\* entry (the other flags and the frame number) is unchanged; for present,
\* writable, user, write-through, cache-disabled, accessed, dirty,
\* large-page and global.
C34_SetterChangesOwnBit ==
    pageCall.tag = "Some" =>
        /\ Is(pageCall.flag, pageEntry) = pageCall.value
        /\ FrameNumber(pageEntry) = FrameNumber(pageCall.before)
        /\ \A bit \in (0 .. 63) \ {BitRead(pageCall.flag)} :
              GetBit(pageEntry, bit) = GetBit(pageCall.before, bit)

====
